---- MODULE Spec2Model ----
(***************************************************************************)
(* The credential-and-request core of the 1claw MCP adapter:               *)
(* OneClawClient (src/src/client.ts).  One client object is driven by      *)
(* several callers; each caller runs request(), which runs headers(),      *)
(* which runs ensureToken().  JavaScript is single-threaded: a handler     *)
(* runs without interruption from one await to the next, so every action   *)
(* below is the code between two suspension points of one call.            *)
(***************************************************************************)
EXTENDS Integers, Sequences, FiniteSets, TLC

\* ------------------------------------------------------------------ bounds
NumCallers == 2          \* concurrent callers of one client
MaxCalls == 2            \* request() calls started in one behaviour
MaxSeqCalls == 3         \* the same, when the calls do not overlap
MaxTicks == 1            \* clock advances in one behaviour

NumSlots == 2            \* connections (hosted) or concurrent requests (stdio)
MaxToolCalls == 2        \* tool calls and resource loads in one behaviour
MaxPathLen == 2          \* characters of a secret path
MaxInvocations == 2      \* tool invocations in one behaviour

Callers == 1..NumCallers
Slots == 1..NumSlots

\* --------------------------------------------------------------- constants
REFRESH_BUFFER_MS == 60000

\* The model's clock advances in steps of the refresh buffer.
TickMs == REFRESH_BUFFER_MS

BillingUrl == "https://1claw.xyz/settings/billing"
ResourceLimitType == "resource_limit_exceeded"

\* ------------------------------------------------------------ input domains
\* Tokens a static configuration carries (index.ts rejects an empty one).
StaticTokens == {"S1", "S2"}
\* access_token values the exchange endpoint may return to caller c: an
\* empty one, or the token it issues in answer to this caller ("T1", "T2", ...).
AccessTokens(c) == {"", "T" \o ToString(c)}
\* expires_in values (seconds) the exchange endpoint may return.
ExpiresIn == {0, 120}

OkStatuses == {200, 204}
ErrStatuses == {402, 403, 404}
ExchangeErrStatuses == {401, 402}

\* A response body: not JSON at all, or a JSON object with the envelope's
\* optional fields ("" stands for a field that is absent or empty: the code
\* tests both with `if (body.detail)` / `if (body.type)`).
NotJson == [json |-> FALSE, detail |-> "", type |-> ""]
Envelope(d, t) == [json |-> TRUE, detail |-> d, type |-> t]
\* The upstream writes what it likes into a detail, a status number included.
EnvelopeDetails == {"", "vault limit hit", "404"}
EnvelopeTypes == {"", ResourceLimitType}
ErrBodies ==
    {NotJson, Envelope("vault limit hit", "forbidden")}
    \cup {Envelope(d, t) : d \in EnvelopeDetails, t \in EnvelopeTypes}
OkBodies == {NotJson, Envelope("", "")}

\* A rejected fetch: no response, no status.
FetchRejected == [transport |-> TRUE, status |-> 0, body |-> NotJson]
\* A response as `await fetch(...)` hands it over: the status is there, the
\* body has still to arrive.
Arrived(s) == [transport |-> FALSE, status |-> s, body |-> NotJson]
\* The same response once its body b is at hand.
WithBody(s, b) == [transport |-> FALSE, status |-> s, body |-> b]

\* What `await fetch(...)` of the primary request can produce.
PrimaryOutcomes ==
    {FetchRejected} \cup {Arrived(s) : s \in OkStatuses \cup ErrStatuses}
\* The bodies that can follow a status.
PrimaryBodies(s) ==
    IF s \in 200..299 THEN OkBodies ELSE ErrBodies

\* A 2xx exchange response, before its body is read.
ExchangeOk == Arrived(200)

\* What `await fetch(...)` of the token exchange can produce.
ExchangeOutcomes ==
    {FetchRejected, ExchangeOk} \cup {Arrived(s) : s \in ExchangeErrStatuses}
\* The body of a non-2xx exchange response.
ExchangeErrBodies == {NotJson, Envelope("", ""), Envelope("bad key", "")}

\* The headers of the exchange request.
ExchangeHeaders == {"Content-Type"}

\* The body of a 2xx exchange response.
NoData == [json |-> FALSE, access_token |-> "", expires_in |-> 0]
ExchangeBodies(c) ==
    {NoData} \cup {[json |-> TRUE, access_token |-> a, expires_in |-> e] :
                      a \in AccessTokens(c), e \in ExpiresIn}

\* MCP_TRANSPORT: the two values index.ts tests for, and any other.
Transports == {"stdio", "httpStream", "sse"}
\* ONECLAW_AGENT_TOKEN and ONECLAW_VAULT_ID ("" when unset or empty).
EnvTokens == {"", "E1"}
EnvVaults == {"", "ev"}
\* Credentials that authenticate accepts: both are non-empty.
SessionTokens == {"A1", "A2"}
SessionVaults == {"va", "vb"}
\* The Authorization headers of connection requests, as the sequence of
\* their words and blanks, and their X-Vault-ID headers; an absent header is
\* the empty one.
AuthorizationHeaders ==
    {<<>>, <<" ">>, <<"Bearer">>, <<"Bearer", " ">>,
     <<"Bearer", " ", "A1">>, <<"bearer", " ", " ", "A2", " ">>}
VaultIdHeaders == {"", "va", "vb"}
SessionAuths == {[present |-> TRUE, token |-> t, vaultId |-> v] :
                    t \in SessionTokens, v \in SessionVaults}
\* The factories passed to registerTool(), in order, and the tools added
\* inline after them.
ToolFactories == <<"list_secrets", "get_secret", "put_secret", "delete_secret",
                   "describe_secret", "create_vault", "list_vaults",
                   "grant_access", "share_secret">>
InlineTools == <<"rotate_and_store", "get_env_bundle">>
\* The tools neither imported nor registered by index.ts.
TransactionTools == {"simulate_transaction", "submit_transaction"}
\* How the upstream request of a call ends.
ToolOutcomes == {"ok", "error"}

\* Secret paths are strings, kept as sequences of characters.  The alphabet
\* has unreserved characters, the separator, characters that are reserved in
\* a URL, and one character outside ASCII.
EAcute == "e-acute"
PathChars == {"a", "b", "/", " ", "#", "?", "%", EAcute}
RECURSIVE StringsUpTo(_)
StringsUpTo(n) ==
    IF n = 0 THEN {<<>>}
    ELSE LET shorter == StringsUpTo(n - 1)
         IN shorter \cup {Append(w, ch) : w \in shorter, ch \in PathChars}
\* The path of the specification's example: "a b/c#d".
ExamplePath == <<"a", " ", "b", "/", "c", "#", "d">>
AllPaths == StringsUpTo(MaxPathLen) \cup {ExamplePath}
\* The client methods that take a secret path.
PathMethods == {"getSecret", "putSecret", "deleteSecret"}

\* ------------------------------------------------------------------- state
VARIABLES
    kind,            \* "static" | "agent": which constructor branch was taken
    cfgToken,        \* config.token of a static configuration
    token,           \* this.token
    tokenExpiresAt,  \* this.tokenExpiresAt
    now,             \* Date.now(), counted from the client's construction
    pc,              \* each caller's position in request()
    resStatus,       \* status of the response whose body the caller awaits
    exchOfCall,      \* exchange fetches issued by the caller's current call
    exchHeaders,     \* header names of the exchange request of the current call
    primOfCall,      \* primary fetches issued by the caller's current call
    authHeader,      \* token in the Authorization header of the primary request
    done,            \* per caller: the response and the result of its call
                     \* that has settled and is being handed to it, if any
    callsStarted,    \* request() calls started so far
    tokenSrc,        \* whose exchange response this.token comes from (0: none)
    expirySrc,       \* whose exchange response this.tokenExpiresAt comes from
    lastResp         \* the exchange response processed last

\* The session router (index.ts): the module's top-level code, the sessions
\* of the hosted server and the tool calls and resource loads it serves.
VARIABLES
    transport,       \* process.env.MCP_TRANSPORT ?? "stdio"
    env,             \* ONECLAW_AGENT_TOKEN and ONECLAW_VAULT_ID ("" when unset)
    phase,           \* how far the module's top-level code has run
    registered,      \* names of the tools added to the server, in order
    sharedClient,    \* index in `clients` of sharedClient, 0 while undefined
    clients,         \* every OneClawClient constructed so far, in order
    sessions,        \* the SessionAuth of each connection
    calls,           \* the tool call or resource load of each slot
    toolCalls,       \* tool calls and resource loads started so far
    conn             \* per slot: the headers of its last connection request,
                     \* the error authenticate rejected it with, and how many
                     \* calls it made and clients were constructed for them

clientVars == <<kind, cfgToken, token, tokenExpiresAt, now, pc, resStatus, exchOfCall,
                exchHeaders, primOfCall, authHeader, done, callsStarted,
                tokenSrc, expirySrc, lastResp>>

routerVars == <<transport, env, phase, registered, sharedClient, clients,
                sessions, calls, toolCalls, conn>>

\* The tool layer (tools/*.ts and the inline tools of index.ts): the tools
\* invoked on one client, each invocation driving a call of request() of the
\* client layer above, and the upstream service the client talks to.
VARIABLES
    cfg,             \* the client's configuration: static token or agent identity
    vault,           \* the upstream vault: the secret stored under each path
    inv,             \* each caller's invocation: tool, arguments, position in
                     \* execute(), the request it waits for and the data of the
                     \* response to it
    reqs,            \* the requests fetch() was called with for the invocation
    logs,            \* the messages the invocation passed to log.info, in order
    ret,             \* what the invocation returned or threw
    written,         \* history: what this client's last successful put of each
                     \* path stored, and the version the path had before it
    invocations      \* tool invocations started so far

toolVars == <<cfg, vault, inv, reqs, logs, ret, written, invocations>>

vars == <<clientVars, routerVars, toolVars>>

\* ------------------------------------------------------------ error values
\* A detail string is kept as the sequence of its parts, so that "contains"
\* is decidable; the string is the concatenation of the parts.
\* HttpDetail that leaves the status out of the fallback.
HttpDetail_NoStatus(status) == <<"HTTP error">>

HttpDetail(status) == <<"HTTP ", ToString(status)>>

QuotaMessage ==
    <<"Quota exhausted. Ask your human to upgrade the plan, add prepaid credits, or enable x402 micropayments at ",
      BillingUrl>>

NoRes == [transport |-> FALSE, status |-> 0, body |-> NotJson]
\* A result records what the caller is handed (kind, status, detail) and, in
\* `from`, which of the call's two fetches it stems from: ensureToken() throws
\* before the primary fetch is issued, request() after it.
NoResult == [kind |-> "none", from |-> "none", status |-> 0, detail |-> <<>>]

OneClawApiError(from, status, detail) ==
    [kind |-> "api", from |-> from, status |-> status, detail |-> detail]
\* fetch() rejecting (TypeError) and res.json() rejecting (SyntaxError):
\* neither is an OneClawApiError and neither carries a status.
\* TransportError that wraps the rejection in an OneClawApiError.
TransportError_AsApiError(from) ==
    [kind |-> "api", from |-> from, status |-> 0, detail |-> <<"fetch failed">>]

TransportError(from) == [kind |-> "transport", from |-> from, status |-> 0, detail |-> <<>>]
ParseError(from) == [kind |-> "parse", from |-> from, status |-> 0, detail |-> <<>>]
Success(v) == [kind |-> "ok", from |-> "primary", status |-> 0, detail |-> <<v>>]

\* No call is being handed its result.
NoDone == [res |-> NoRes, result |-> NoResult]

\* ---------------------------------------------------- router: data values
\* context.session / the `auth` argument of load(): undefined, or the
\* SessionAuth that authenticate resolved with.
NoSession == [present |-> FALSE, token |-> "", vaultId |-> ""]
SessionAuth(t, v) == [present |-> TRUE, token |-> t, vaultId |-> v]

\* What a constructed OneClawClient holds (baseUrl is the same for all).
Client(t, v) == [token |-> t, vaultId |-> v]

\* The upstream request of a call: its method and URL as the client method
\* built them and, once fetch() is called, the token of its Authorization
\* header.
NoReq == [sent |-> FALSE, token |-> "", method |-> "", url |-> <<>>]
Pending(r) == [sent |-> FALSE, token |-> "", method |-> r.method, url |-> r.url]
Request(client, r) ==
    [sent |-> TRUE, token |-> client.token, method |-> r.method, url |-> r.url]

NotAuthenticated == "Not authenticated. Provide Authorization and X-Vault-ID headers."
NoError == [kind |-> "none", message |-> ""]
UserError(message) == [kind |-> "UserError", message |-> message]

\* The Error authenticate rejects a connection with.
AuthError(message) == [kind |-> "Error", message |-> message]
\* A slot that has not asked for a connection.
NoConn == [tried |-> FALSE, authorization |-> <<>>, xVaultId |-> "",
           error |-> NoError, calls |-> 0, clients |-> 0]

NoCall == [pc |-> "idle", what |-> "", args |-> <<>>, session |-> NoSession,
           client |-> 0, step |-> 0, req |-> NoReq, error |-> NoError,
           outcome |-> "", text |-> <<>>]

\* The router's variables while no process is running: no connection and
\* no call has a slot.
RouterOff ==
    /\ transport = "stdio"
    /\ env = [token |-> "", vaultId |-> ""]
    /\ phase = "load"
    /\ registered = <<>>
    /\ sharedClient = 0
    /\ clients = <<>>
    /\ sessions = <<>>
    /\ calls = <<>>
    /\ toolCalls = 0
    /\ conn = <<>>

\* ------------------------------------------------------ tools: data values
BaseUrl == "https://api.1claw.xyz"
\* The vault id the client of the tool layer is configured with.
ToolVaultId == "v1"

NoBody == [value |-> <<>>, type |-> ""]
\* JSON null, as a response carries it and JSON.stringify writes it.
Null == "null"
\* A caller without an invocation.  An invocation holds, next to its tool and
\* arguments, the request it is about to issue or waits for, the data of the
\* response and, as history, what a write of it replaced (`before`), whether
\* it is still the last write of its path (`clean`) and the write a get
\* found recorded when it started (`expect`).
NoInv == [pc |-> "idle", tool |-> "", args |-> <<>>, step |-> 0, req |-> <<>>,
          data |-> <<>>, before |-> 0, clean |-> FALSE, expect |-> <<>>]
NoRet == [kind |-> "none", payload |-> <<>>]
Returned(x) == [kind |-> "return", payload |-> x]
Thrown(e) == [kind |-> "throw", payload |-> e]

\* The tool layer's variables while no tool is registered: there is no
\* client configuration, invocation or result.
ToolsOff ==
    /\ cfg = <<>>
    /\ vault = <<>>
    /\ inv = <<>>
    /\ reqs = <<>>
    /\ logs = <<>>
    /\ ret = <<>>
    /\ written = <<>>
    /\ invocations = 0

\* ------------------------------------------------------------- constructor
\* One client object, just constructed, and its callers.
ClientInit ==
    /\ kind \in {"static", "agent"}
    /\ cfgToken \in (IF kind = "static" THEN StaticTokens ELSE {""})
    /\ token = (IF kind = "static" THEN cfgToken ELSE "")
    /\ tokenExpiresAt = 0
    /\ now = 0
    /\ pc = [c \in Callers |-> "idle"]
    /\ resStatus = [c \in Callers |-> 0]
    /\ exchOfCall = [c \in Callers |-> 0]
    /\ exchHeaders = [c \in Callers |-> {}]
    /\ primOfCall = [c \in Callers |-> 0]
    /\ authHeader = [c \in Callers |-> ""]
    /\ done = [c \in Callers |-> NoDone]
    /\ callsStarted = 0
    /\ tokenSrc = 0
    /\ expirySrc = 0
    /\ lastResp = [id |-> 0, access_token |-> "", expires_in |-> 0, at |-> 0]

\* The client-level variables while the model follows another layer.
ClientOff == ClientInit /\ kind = "static" /\ cfgToken = "S1"

Init == ClientInit /\ RouterOff /\ ToolsOff

\* ------------------------------------------------------- request(): errors
IsOk(status) == status >= 200 /\ status <= 299

\* `let detail = "HTTP <status>"; try { body = await res.json();
\*  if (body.detail) detail = body.detail } catch {}`
\* ParsedDetail that appends the status to the envelope's detail.
ParsedDetail_WithStatus(status, body) ==
    IF body.json /\ body.detail # ""
    THEN <<body.detail, " (HTTP ", ToString(status), ")">>
    ELSE HttpDetail(status)

ParsedDetail(status, body) ==
    IF body.json /\ body.detail # "" THEN <<body.detail>> ELSE HttpDetail(status)

\* `let errorType = ""; ... if (body.type) errorType = body.type`
ParsedType(body) ==
    IF body.json /\ body.type # "" THEN body.type ELSE ""

\* ResourceLimitMessage without the original detail.
ResourceLimitMessage_NoDetail(detail) ==
    <<"Resource limit reached. Ask your human to upgrade the plan at ", BillingUrl>>

\* `Resource limit reached: ${detail}. Ask your human to upgrade the plan at
\*  https://1claw.xyz/settings/billing`
ResourceLimitMessage(detail) ==
    <<"Resource limit reached: ">> \o detail
        \o <<". Ask your human to upgrade the plan at ", BillingUrl>>

\* RequestError with the 403 branch throwing the status of the branch above it.
RequestError_CopiedStatus(status, body) ==
    IF status = 402
    THEN OneClawApiError("primary", 402, QuotaMessage)
    ELSE IF status = 403 /\ ParsedType(body) = ResourceLimitType
    THEN OneClawApiError("primary", 402, ResourceLimitMessage(ParsedDetail(status, body)))
    ELSE OneClawApiError("primary", status, ParsedDetail(status, body))

\* RequestError with the 402 branch keeping the envelope's detail.
RequestError_EnvelopeDetailOn402(status, body) ==
    IF status = 403 /\ ParsedType(body) = ResourceLimitType
    THEN OneClawApiError("primary", 403, ResourceLimitMessage(ParsedDetail(status, body)))
    ELSE OneClawApiError("primary", status, ParsedDetail(status, body))

\* RequestError rewriting every 403, whatever the envelope's type.
RequestError_Every403(status, body) ==
    IF status = 402
    THEN OneClawApiError("primary", 402, QuotaMessage)
    ELSE IF status = 403
    THEN OneClawApiError("primary", 403, ResourceLimitMessage(ParsedDetail(status, body)))
    ELSE OneClawApiError("primary", status, ParsedDetail(status, body))

\* The error request() throws for a non-2xx response.
RequestError(status, body) ==
    IF status = 402
    THEN OneClawApiError("primary", 402, QuotaMessage)
    ELSE IF status = 403 /\ ParsedType(body) = ResourceLimitType
    THEN OneClawApiError("primary", 403, ResourceLimitMessage(ParsedDetail(status, body)))
    ELSE OneClawApiError("primary", status, ParsedDetail(status, body))

\* What request() returns or throws once its fetch has settled.
\* RequestResult that reads the body of a 204 like that of any other 2xx.
RequestResult_ParseNoContent(out) ==
    IF out.transport THEN TransportError("primary")
    ELSE IF ~IsOk(out.status) THEN RequestError(out.status, out.body)
    ELSE IF out.body.json THEN Success("json")
    ELSE ParseError("primary")

\* RequestResult that catches the parse failure of a 2xx body and returns
\* nothing.
RequestResult_SwallowParse(out) ==
    IF out.transport THEN TransportError("primary")
    ELSE IF ~IsOk(out.status) THEN RequestError(out.status, out.body)
    ELSE IF out.status = 204 THEN Success("undefined")
    ELSE IF out.body.json THEN Success("json")
    ELSE Success("undefined")

\* RequestResult without the `if (!res.ok)` branch.
RequestResult_NoOkCheck(out) ==
    IF out.transport THEN TransportError("primary")
    ELSE IF out.status = 204 THEN Success("undefined")
    ELSE IF out.body.json THEN Success("json")
    ELSE ParseError("primary")

RequestResult(out) ==
    IF out.transport THEN TransportError("primary")
    ELSE IF ~IsOk(out.status) THEN RequestError(out.status, out.body)
    ELSE IF out.status = 204 THEN Success("undefined")
    ELSE IF out.body.json THEN Success("json")
    ELSE ParseError("primary")

\* ------------------------------------------------------------ ensureToken()
\* CacheFresh comparing with the expiry itself, the buffer forgotten.
CacheFresh_NoBuffer ==
    token # "" /\ now < tokenExpiresAt

\* `this.token && Date.now() < this.tokenExpiresAt - REFRESH_BUFFER_MS`
CacheFresh ==
    token # "" /\ now < tokenExpiresAt - REFRESH_BUFFER_MS

\* NeedsExchange without `if (!this.agentCredentials) return`.
NeedsExchange_NoStaticReturn ==
    ~CacheFresh

\* NeedsExchange behind a single-flight guard that lets a caller through
\* while another caller's exchange is in flight.
NeedsExchange_SingleFlight ==
    /\ kind = "agent"
    /\ ~CacheFresh
    /\ \A d \in Callers : pc[d] \notin {"exch", "exerr", "exbody"}

\* ensureToken() goes on to the exchange fetch: it has agent credentials and
\* the cache is not fresh.
NeedsExchange ==
    kind = "agent" /\ ~CacheFresh

\* StoreToken that writes the token and leaves the expiry for later.
StoreToken_TokenOnly(data, id) ==
    [token |-> data.access_token,
     tokenExpiresAt |-> tokenExpiresAt,
     tokenSrc |-> id,
     expirySrc |-> expirySrc]

\* `this.token = data.access_token;
\*  this.tokenExpiresAt = Date.now() + data.expires_in * 1000;`
\* (one synchronous block: no await between the two assignments).
StoreToken(data, id) ==
    [token |-> data.access_token,
     tokenExpiresAt |-> now + data.expires_in * 1000,
     tokenSrc |-> id,
     expirySrc |-> id]

\* ExchangeError that passes the detail on without the prefix.
ExchangeError_NoPrefix(status, body) ==
    OneClawApiError("exchange", status, ParsedDetail(status, body))

\* The error ensureToken() throws for a non-2xx exchange response.
ExchangeError(status, body) ==
    OneClawApiError("exchange", status,
                    <<"Agent auth failed: ">> \o ParsedDetail(status, body))

\* ------------------------------------------------------------------ actions
\* The call of caller c settles with result r on `out`, the response of the
\* fetch it issued last (r.from says which: the exchange or the primary).
Complete(c, out, r) ==
    /\ done' = [done EXCEPT ![c] = [res |-> out, result |-> r]]
    /\ pc' = [pc EXCEPT ![c] = "done"]
    /\ resStatus' = [resStatus EXCEPT ![c] = 0]

\* Caller c goes on to position p, awaiting the body of a response with
\* status s (0 when it awaits none).
Await(c, p, s) ==
    /\ pc' = [pc EXCEPT ![c] = p]
    /\ resStatus' = [resStatus EXCEPT ![c] = s]
    /\ UNCHANGED done

\* The settled promise resumes the caller, which now holds the result and is
\* free to call again.  Settling and resuming are a hop of the microtask
\* queue apart, during which the other callers run on.
Leave(c) ==
    /\ pc[c] = "done"
    /\ pc' = [pc EXCEPT ![c] = "idle"]
    /\ done' = [done EXCEPT ![c] = NoDone]
    /\ exchOfCall' = [exchOfCall EXCEPT ![c] = 0]
    /\ exchHeaders' = [exchHeaders EXCEPT ![c] = {}]
    /\ primOfCall' = [primOfCall EXCEPT ![c] = 0]
    /\ authHeader' = [authHeader EXCEPT ![c] = ""]
    /\ UNCHANGED <<kind, cfgToken, token, tokenExpiresAt, now, resStatus,
                   callsStarted, tokenSrc, expirySrc, lastResp>>

\* The same, of a call made by a caller outside the tool layer.
Return(c) ==
    /\ Leave(c)
    /\ UNCHANGED <<routerVars, toolVars>>

\* A caller enters request(): headers() and ensureToken() run synchronously up
\* to the first await, which is the exchange fetch or, with nothing to
\* refresh, the await of ensureToken()'s settled promise.
Enter(c) ==
    /\ pc[c] = "idle"
    /\ callsStarted' = callsStarted + 1
    /\ IF NeedsExchange
       THEN /\ pc' = [pc EXCEPT ![c] = "exch"]
            /\ exchOfCall' = [exchOfCall EXCEPT ![c] = @ + 1]
            /\ exchHeaders' = [exchHeaders EXCEPT ![c] = ExchangeHeaders]
       ELSE /\ pc' = [pc EXCEPT ![c] = "hdr"]
            /\ UNCHANGED <<exchOfCall, exchHeaders>>
    /\ UNCHANGED <<kind, cfgToken, token, tokenExpiresAt, now, resStatus,
                   primOfCall, authHeader, done, tokenSrc, expirySrc, lastResp>>

\* A caller that has been handed the result of one call of request() enters
\* the next in the same turn.
Reenter(c) ==
    /\ pc[c] = "done"
    /\ callsStarted' = callsStarted + 1
    /\ IF NeedsExchange
       THEN /\ pc' = [pc EXCEPT ![c] = "exch"]
            /\ exchOfCall' = [exchOfCall EXCEPT ![c] = 1]
            /\ exchHeaders' = [exchHeaders EXCEPT ![c] = ExchangeHeaders]
       ELSE /\ pc' = [pc EXCEPT ![c] = "hdr"]
            /\ exchOfCall' = [exchOfCall EXCEPT ![c] = 0]
            /\ exchHeaders' = [exchHeaders EXCEPT ![c] = {}]
    /\ done' = [done EXCEPT ![c] = NoDone]
    /\ primOfCall' = [primOfCall EXCEPT ![c] = 0]
    /\ authHeader' = [authHeader EXCEPT ![c] = ""]
    /\ UNCHANGED <<kind, cfgToken, token, tokenExpiresAt, now, resStatus,
                   tokenSrc, expirySrc, lastResp>>

\* ExchangeRespond that drops the cached token when the exchange fails.
ExchangeRespond_ClearOnFailure(c) ==
    /\ pc[c] = "exch"
    /\ \E out \in ExchangeOutcomes :
        IF out.transport
        THEN /\ Complete(c, out, TransportError("exchange"))
             /\ token' = "" /\ tokenExpiresAt' = 0
        ELSE IF ~IsOk(out.status)
        THEN /\ Await(c, "exerr", out.status)
             /\ token' = "" /\ tokenExpiresAt' = 0
        ELSE /\ Await(c, "exbody", out.status)
             /\ UNCHANGED <<token, tokenExpiresAt>>
    /\ UNCHANGED <<kind, cfgToken, now, exchOfCall, exchHeaders,
                   primOfCall, authHeader, callsStarted, tokenSrc, expirySrc,
                   lastResp>>
    /\ UNCHANGED <<routerVars, toolVars>>

\* `await fetch(.../v1/auth/agent-token)` settles with `out`: it rejects and
\* the call ends, or it resolves with a response, whose body the caller goes
\* on to await: in the `if (!res.ok)` branch for a non-2xx status, after it
\* for a 2xx status.
ExchangeSettles(c, out) ==
    IF out.transport
    THEN Complete(c, out, TransportError("exchange"))
    ELSE IF ~IsOk(out.status)
    THEN Await(c, "exerr", out.status)
    ELSE Await(c, "exbody", out.status)

\* The exchange fetch settles with any of the outcomes of the input domain.
ExchangeRespond(c) ==
    /\ pc[c] = "exch"
    /\ \E out \in ExchangeOutcomes : ExchangeSettles(c, out)
    /\ UNCHANGED <<kind, cfgToken, token, tokenExpiresAt, now, exchOfCall, exchHeaders,
                   primOfCall, authHeader, callsStarted, tokenSrc, expirySrc,
                   lastResp>>
    /\ UNCHANGED <<routerVars, toolVars>>

\* `await res.json()` of a non-2xx exchange response settles, with the body
\* or with the parse failure the catch swallows, and ensureToken() throws.
ExchangeFails(c, body) ==
    Complete(c, WithBody(resStatus[c], body), ExchangeError(resStatus[c], body))

\* The same, with any of the bodies of the input domain.
ExchangeErrorBody(c) ==
    /\ pc[c] = "exerr"
    /\ \E body \in ExchangeErrBodies : ExchangeFails(c, body)
    /\ UNCHANGED <<kind, cfgToken, token, tokenExpiresAt, now, exchOfCall, exchHeaders,
                   primOfCall, authHeader, callsStarted, tokenSrc, expirySrc,
                   lastResp>>
    /\ UNCHANGED <<routerVars, toolVars>>

\* `await res.json()` of a 2xx exchange response settles with `data`: a body
\* that is not JSON throws, anything else is stored in the cache.
ExchangeStores(c, data) ==
    IF ~data.json
    THEN /\ Complete(c, Arrived(resStatus[c]), ParseError("exchange"))
         /\ UNCHANGED <<token, tokenExpiresAt, tokenSrc, expirySrc, lastResp>>
    ELSE /\ Await(c, "hdr", 0)
         /\ token' = StoreToken(data, c).token
         /\ tokenExpiresAt' = StoreToken(data, c).tokenExpiresAt
         /\ tokenSrc' = StoreToken(data, c).tokenSrc
         /\ expirySrc' = StoreToken(data, c).expirySrc
         /\ lastResp' = [id |-> c, access_token |-> data.access_token,
                         expires_in |-> data.expires_in, at |-> now]

\* The same, with any of the bodies of the input domain.
ExchangeBody(c) ==
    /\ pc[c] = "exbody"
    /\ \E data \in ExchangeBodies(c) : ExchangeStores(c, data)
    /\ UNCHANGED <<kind, cfgToken, now, exchOfCall, exchHeaders, primOfCall, authHeader,
                   callsStarted>>
    /\ UNCHANGED <<routerVars, toolVars>>

\* headers() resumes after `await this.ensureToken()`, reads this.token into
\* the Authorization header and returns; request() is still suspended on
\* `await this.headers()`.
ReadToken(c) ==
    /\ pc[c] = "hdr"
    /\ authHeader' = [authHeader EXCEPT ![c] = token]
    /\ pc' = [pc EXCEPT ![c] = "send"]
    /\ UNCHANGED <<kind, cfgToken, token, tokenExpiresAt, now, resStatus, exchOfCall,
                   exchHeaders, primOfCall, done, callsStarted, tokenSrc, expirySrc,
                   lastResp>>
    /\ UNCHANGED <<routerVars, toolVars>>

\* request() resumes after `await this.headers()` and issues the primary
\* fetch with the headers it was handed.
Fetch(c) ==
    /\ pc[c] = "send"
    /\ primOfCall' = [primOfCall EXCEPT ![c] = @ + 1]
    /\ pc' = [pc EXCEPT ![c] = "fetch"]
    /\ UNCHANGED <<kind, cfgToken, token, tokenExpiresAt, now, resStatus, exchOfCall,
                   exchHeaders, authHeader, done, callsStarted, tokenSrc, expirySrc,
                   lastResp>>

\* The same, of a call made by a caller outside the tool layer.
SendPrimary(c) ==
    /\ Fetch(c)
    /\ UNCHANGED <<routerVars, toolVars>>

\* PrimaryRespond that issues the fetch once more after a transport failure.
PrimaryRespond_RetryOnce(c) ==
    /\ pc[c] = "fetch"
    /\ \E out \in PrimaryOutcomes :
        IF out.transport /\ primOfCall[c] < 2
        THEN /\ primOfCall' = [primOfCall EXCEPT ![c] = @ + 1]
             /\ UNCHANGED <<pc, resStatus, done>>
        ELSE IF out.transport
        THEN /\ Complete(c, out, RequestResult(out))
             /\ UNCHANGED primOfCall
        ELSE IF out.status = 204
        THEN /\ \E body \in PrimaryBodies(out.status) :
                    Complete(c, WithBody(out.status, body),
                             RequestResult(WithBody(out.status, body)))
             /\ UNCHANGED primOfCall
        ELSE /\ Await(c, "body", out.status)
             /\ UNCHANGED primOfCall
    /\ UNCHANGED <<kind, cfgToken, token, tokenExpiresAt, now, exchOfCall, exchHeaders,
                   authHeader, callsStarted, tokenSrc, expirySrc, lastResp>>
    /\ UNCHANGED <<routerVars, toolVars>>

\* `await fetch(url, ...)` of the primary request settles with `out`.  A
\* rejection ends the call, and so does a 204, whatever body came with it (it
\* is never read); with any other status the caller goes on to await the
\* body: `await res.json()` in the `if (!res.ok)` branch, `return res.json()`
\* after it.
FetchSettles(c, out) ==
    IF out.transport
    THEN Complete(c, out, RequestResult(out))
    ELSE IF out.status = 204
    THEN \E body \in PrimaryBodies(out.status) :
            Complete(c, WithBody(out.status, body),
                     RequestResult(WithBody(out.status, body)))
    ELSE Await(c, "body", out.status)

\* The primary fetch settles with any of the outcomes of the input domain.
PrimaryRespond(c) ==
    /\ pc[c] = "fetch"
    /\ \E out \in PrimaryOutcomes : FetchSettles(c, out)
    /\ UNCHANGED <<kind, cfgToken, token, tokenExpiresAt, now, exchOfCall, exchHeaders,
                   primOfCall, authHeader, callsStarted, tokenSrc, expirySrc,
                   lastResp>>
    /\ UNCHANGED <<routerVars, toolVars>>

\* The body of the primary response arrives, or fails to parse, and request()
\* returns or throws.
BodySettles(c, body) ==
    Complete(c, WithBody(resStatus[c], body),
             RequestResult(WithBody(resStatus[c], body)))

\* The same, with any of the bodies of the input domain.
PrimaryBody(c) ==
    /\ pc[c] = "body"
    /\ \E body \in PrimaryBodies(resStatus[c]) : BodySettles(c, body)
    /\ UNCHANGED <<kind, cfgToken, token, tokenExpiresAt, now, exchOfCall, exchHeaders,
                   primOfCall, authHeader, callsStarted, tokenSrc, expirySrc,
                   lastResp>>
    /\ UNCHANGED <<routerVars, toolVars>>

\* The clock advances.  Date.now() is the wall clock: it moves on between any
\* two steps, whatever the callers are doing.
Tick ==
    /\ now < MaxTicks * TickMs
    /\ now' = now + TickMs
    /\ UNCHANGED <<kind, cfgToken, token, tokenExpiresAt, pc, resStatus, exchOfCall,
                   exchHeaders, primOfCall, authHeader, done, callsStarted, tokenSrc,
                   expirySrc, lastResp>>
    /\ UNCHANGED <<routerVars, toolVars>>

\* Callers enter request() at any time, whatever other calls are in flight.
Call(c) ==
    /\ callsStarted < MaxCalls
    /\ Enter(c)
    /\ UNCHANGED <<routerVars, toolVars>>

Next ==
    \/ \E c \in Callers : Call(c)
    \/ \E c \in Callers : ExchangeRespond(c)
    \/ \E c \in Callers : ExchangeErrorBody(c)
    \/ \E c \in Callers : ExchangeBody(c)
    \/ \E c \in Callers : ReadToken(c)
    \/ \E c \in Callers : SendPrimary(c)
    \/ \E c \in Callers : PrimaryRespond(c)
    \/ \E c \in Callers : PrimaryBody(c)
    \/ \E c \in Callers : Return(c)
    \/ Tick

Spec == Init /\ [][Next]_vars

\* Sequential use of the client: a call starts only when no call is in flight.
CallSeq(c) ==
    /\ callsStarted < MaxSeqCalls
    /\ \A d \in Callers : pc[d] = "idle"
    /\ Enter(c)
    /\ UNCHANGED <<routerVars, toolVars>>

NextSeq ==
    \/ \E c \in Callers : CallSeq(c)
    \/ \E c \in Callers : ExchangeRespond(c)
    \/ \E c \in Callers : ExchangeErrorBody(c)
    \/ \E c \in Callers : ExchangeBody(c)
    \/ \E c \in Callers : ReadToken(c)
    \/ \E c \in Callers : SendPrimary(c)
    \/ \E c \in Callers : PrimaryRespond(c)
    \/ \E c \in Callers : PrimaryBody(c)
    \/ \E c \in Callers : Return(c)
    \/ Tick

SeqSpec == Init /\ [][NextSeq]_vars

\* ------------------------------------------------- client.ts: encodePath
\* encodeURIComponent leaves these characters as they are.
Unreserved == {"a", "b", "c", "d", "k", "-", "_", ".", "!", "~", "*", "'", "(", ")"}

\* The escape of one character: %XX for each byte of its UTF-8 encoding.
EncodeChar(ch) ==
    IF ch \in Unreserved THEN <<ch>>
    ELSE CASE ch = " " -> <<"%", "2", "0">>
           [] ch = "#" -> <<"%", "2", "3">>
           [] ch = "%" -> <<"%", "2", "5">>
           [] ch = "/" -> <<"%", "2", "F">>
           [] ch = "?" -> <<"%", "3", "F">>
           [] ch = EAcute -> <<"%", "C", "3", "%", "A", "9">>

RECURSIVE EncodeURIComponent(_)
EncodeURIComponent(str) ==
    IF str = <<>> THEN <<>>
    ELSE EncodeChar(Head(str)) \o EncodeURIComponent(Tail(str))

\* str.split("/"): the segments between the separators; one (empty) segment
\* for the empty string.
RECURSIVE Split(_)
Split(str) ==
    IF str = <<>> THEN << <<>> >>
    ELSE LET rest == Split(Tail(str))
         IN IF Head(str) = "/" THEN << <<>> >> \o rest
            ELSE << <<Head(str)>> \o Head(rest) >> \o Tail(rest)

\* segments.join(sep).
RECURSIVE JoinWith(_, _)
JoinWith(segments, sep) ==
    IF segments = <<>> THEN <<>>
    ELSE IF Len(segments) = 1 THEN Head(segments)
    ELSE Head(segments) \o <<sep>> \o JoinWith(Tail(segments), sep)

Join(segments) == JoinWith(segments, "/")

\* encodePath that encodes the path as one component.
EncodePath_Whole(path) == EncodeURIComponent(path)

EncodePath(path) ==
    Join([i \in DOMAIN Split(path) |-> EncodeURIComponent(Split(path)[i])])

\* ---------------------------------------- client.ts: the request methods
\* Each method calls request(url, init): the method, URL and body it passes.
\* this.vaultUrl(suffix), of a client configured with vaultId.
VaultUrl(vaultId, suffix) == <<BaseUrl, "/v1/vaults/", vaultId>> \o suffix

ListSecretsRequest(vaultId) ==
    [method |-> "GET", url |-> VaultUrl(vaultId, <<"/secrets">>), body |-> NoBody]
GetSecretRequest(vaultId, path) ==
    [method |-> "GET", url |-> VaultUrl(vaultId, <<"/secrets/">> \o EncodePath(path)),
     body |-> NoBody]
\* putSecret that sends the value without its type.
PutSecretRequest_NoType(vaultId, path, body) ==
    [method |-> "PUT", url |-> VaultUrl(vaultId, <<"/secrets/">> \o EncodePath(path)),
     body |-> [value |-> body.value, type |-> ""]]

PutSecretRequest(vaultId, path, body) ==
    [method |-> "PUT", url |-> VaultUrl(vaultId, <<"/secrets/">> \o EncodePath(path)),
     body |-> body]
DeleteSecretRequest(vaultId, path) ==
    [method |-> "DELETE", url |-> VaultUrl(vaultId, <<"/secrets/">> \o EncodePath(path)),
     body |-> NoBody]
\* createVault(name, description): `description ?? ""`.
CreateVaultRequest(name, description) ==
    [method |-> "POST", url |-> <<BaseUrl, "/v1/vaults">>,
     body |-> [name |-> name, description |-> description]]
ListVaultsRequest ==
    [method |-> "GET", url |-> <<BaseUrl, "/v1/vaults">>, body |-> NoBody]
ShareSecretRequest(secretId, options) ==
    [method |-> "POST", url |-> <<BaseUrl, "/v1/secrets/", secretId, "/share">>,
     body |-> options]
\* createPolicy takes the vault id as an argument: the URL does not use the
\* client's.
CreatePolicyRequest(vaultId, principalType, principalId, permissions, secretPathPattern) ==
    [method |-> "POST", url |-> <<BaseUrl, "/v1/vaults/", vaultId, "/policies">>,
     body |-> [secret_path_pattern |-> secretPathPattern,
               principal_type |-> principalType,
               principal_id |-> principalId,
               permissions |-> permissions]]

\* `get agentId()`: undefined (here "") unless the client holds agent
\* credentials.
\* agentId that falls back to the vault id.
AgentId_Default(config) == IF config.kind = "agent" THEN config.agentId ELSE ToolVaultId

AgentId(config) == IF config.kind = "agent" THEN config.agentId ELSE ""

SimulateTransactionRequest(agentId, tx) ==
    [method |-> "POST",
     url |-> <<BaseUrl, "/v1/agents/", agentId, "/transactions/simulate">>,
     body |-> tx]
SubmitTransactionRequest(agentId, tx) ==
    [method |-> "POST",
     url |-> <<BaseUrl, "/v1/agents/", agentId, "/transactions">>,
     body |-> tx]

\* The fetch of ensureToken(): it is not issued through request().
ExchangeRequest(config) ==
    [method |-> "POST", url |-> <<BaseUrl, "/v1/auth/agent-token">>,
     body |-> [agent_id |-> config.agentId, api_key |-> config.apiKey]]

\* The request a path method issues.
MethodRequest(method, path, body) ==
    CASE method = "getSecret" -> GetSecretRequest(ToolVaultId, path)
      [] method = "putSecret" -> PutSecretRequest(ToolVaultId, path, body)
      [] method = "deleteSecret" -> DeleteSecretRequest(ToolVaultId, path)

\* A path method is called with the arguments drawn at the start and builds
\* its request.
CallMethod(c) ==
    /\ inv[c].pc = "args"
    /\ reqs' = [reqs EXCEPT ![c] =
                    Append(@, MethodRequest(inv[c].tool, inv[c].args.path,
                                            [value |-> inv[c].args.value,
                                             type |-> inv[c].args.type]))]
    /\ inv' = [inv EXCEPT ![c].pc = "sent"]
    /\ UNCHANGED <<cfg, vault, logs, ret, written, invocations>>
    /\ UNCHANGED <<clientVars, routerVars>>

\* The path methods applied to every path and method.
PathInit ==
    /\ ClientOff
    /\ RouterOff
    /\ cfg = [kind |-> "static", agentId |-> "", apiKey |-> ""]
    /\ vault = <<>>
    /\ \E m \in PathMethods, p \in AllPaths :
        inv = [c \in Callers |->
                IF c = 1
                THEN [NoInv EXCEPT !.pc = "args", !.tool = m,
                        !.args = [path |-> p,
                                  value |-> IF m = "putSecret" THEN <<"s">> ELSE <<>>,
                                  type |-> IF m = "putSecret" THEN "api_key" ELSE ""]]
                ELSE NoInv]
    /\ reqs = [c \in Callers |-> <<>>]
    /\ logs = [c \in Callers |-> <<>>]
    /\ ret = [c \in Callers |-> NoRet]
    /\ written = <<>>
    /\ invocations = 0

PathNext == \E c \in Callers : CallMethod(c)

PathSpec == PathInit /\ [][PathNext]_vars

\* ------------------------------------------------ tools: the arguments
\* The value of an optional field: `r.f ?? default`.
Field(r, f, default) == IF f \in DOMAIN r THEN r[f] ELSE default
\* `r.f ?? default` of a field of a response, which may also be null.
Coalesce(r, f, default) ==
    IF f \in DOMAIN r /\ r[f] # Null THEN r[f] ELSE default

ToolPaths == {<<"k">>, <<"a", " ", "b">>}
\* Secret values are strings, kept as the sequence of their lines.
PlainValue == << <<"x", "y">> >>
BundleValue == << <<" ", "K", "=", "x">>, <<"#", "y">>, <<"y">> >>
SecretValues == {PlainValue, BundleValue}
SecretTypes == {"api_key", "env_bundle"}
ExpiryDate == "2026-12-31T00:00:00Z"
\* The transaction both transaction tools are called with.
TxBody == [to |-> "0xabc", value |-> "0.01", chain |-> "base"]
ShareArgs(recipientType) ==
    [secret_id |-> "s1", recipient_type |-> recipientType,
     expires_at |-> ExpiryDate, max_access_count |-> 5]

\* The arguments a tool is called with (zod has applied the defaults);
\* optional arguments are fields the record may lack.
ToolArgs(tool) ==
    CASE tool = "list_secrets" -> {<<>>, [prefix |-> <<"a">>]}
      [] tool = "put_secret" ->
            {[path |-> <<"k">>, value |-> PlainValue, type |-> "api_key"],
             [path |-> <<"a", " ", "b">>, value |-> BundleValue, type |-> "env_bundle",
              expires_at |-> ExpiryDate, metadata |-> [owner |-> "ci"]]}
      [] tool = "rotate_and_store" -> {[path |-> <<"k">>, value |-> PlainValue]}
      [] tool = "create_vault" -> {[name |-> "ci-keys"]}
      [] tool = "list_vaults" -> {<<>>}
      [] tool = "grant_access" ->
            {[vault_id |-> "vx", principal_type |-> "agent", principal_id |-> "ag2",
              permissions |-> <<"read", "write">>, secret_path_pattern |-> "**"]}
      [] tool = "share_secret" ->
            {ShareArgs("creator"),
             ShareArgs("agent"),
             [f \in DOMAIN ShareArgs("user") \cup {"recipient_id"} |->
                IF f = "recipient_id" THEN "u1" ELSE ShareArgs("user")[f]]}
      [] tool \in TransactionTools -> {TxBody}
      [] OTHER -> {[path |-> p] : p \in ToolPaths}

\* The arguments the calls of the session router come with: one set for each
\* tool, and share_secret with and without the recipient it needs.
CallArgs(tool) ==
    CASE tool = "list_secrets" -> {<<>>}
      [] tool = "put_secret" ->
            {[path |-> <<"k">>, value |-> PlainValue, type |-> "api_key"]}
      [] tool = "rotate_and_store" -> {[path |-> <<"k">>, value |-> PlainValue]}
      [] tool = "share_secret" -> {ShareArgs("creator"), ShareArgs("agent")}
      [] tool \in {"create_vault", "list_vaults", "grant_access"} -> ToolArgs(tool)
      [] OTHER -> {[path |-> <<"k">>]}

\* ------------------------------------------- tools: execute(), first part
NotFound(path) == UserError(<<"No secret found at path '">> \o path \o <<"'.">>)
Expired(path) ==
    UserError(<<"Secret at path '">> \o path
              \o <<"' is expired or has exceeded its maximum access count.">>)

\* What execute() has done when it reaches an await or its end: the messages
\* it logged, what it returned or threw, and the request it issues next, if
\* any.
Finished(messages, result) == [logs |-> messages, ret |-> result, next |-> <<>>]
Continued(req) == [logs |-> <<>>, ret |-> NoRet, next |-> <<req>>]

\* simulate_transaction and submit_transaction without an agent id.
RequiresAgent(tool) ==
    UserError(<<tool, " requires agent authentication (ONECLAW_AGENT_ID).">>)

\* share_secret to a user or an agent without a recipient id.
NeedsRecipient(args) ==
    /\ args.recipient_type \in {"user", "agent"}
    /\ Field(args, "recipient_id", "") = ""
RecipientRequired(args) ==
    <<"Error: recipient_id is required when sharing with a ", args.recipient_type, ".">>

\* The options share_secret passes on: undefined fields are not serialised.
ShareOptions(args) == [f \in DOMAIN args \ {"secret_id"} |-> args[f]]

\* The first request of a tool, on a client with the given vault id and
\* agent id.  put_secret passes on every argument but the path; the ones it
\* was not given are undefined and not serialised.
FirstRequest(tool, args, vaultId, agentId) ==
    CASE tool \in {"get_secret", "get_env_bundle"} -> GetSecretRequest(vaultId, args.path)
      [] tool = "put_secret" ->
            PutSecretRequest(vaultId, args.path, [f \in DOMAIN args \ {"path"} |-> args[f]])
      [] tool = "rotate_and_store" ->
            PutSecretRequest(vaultId, args.path, [value |-> args.value, type |-> "api_key"])
      [] tool = "delete_secret" -> DeleteSecretRequest(vaultId, args.path)
      [] tool \in {"list_secrets", "describe_secret"} -> ListSecretsRequest(vaultId)
      [] tool = "create_vault" ->
            CreateVaultRequest(args.name, Field(args, "description", ""))
      [] tool = "list_vaults" -> ListVaultsRequest
      [] tool = "grant_access" ->
            CreatePolicyRequest(args.vault_id, args.principal_type, args.principal_id,
                                args.permissions, args.secret_path_pattern)
      [] tool = "share_secret" -> ShareSecretRequest(args.secret_id, ShareOptions(args))
      [] tool = "simulate_transaction" -> SimulateTransactionRequest(agentId, args)
      [] tool = "submit_transaction" -> SubmitTransactionRequest(agentId, args)

\* execute() from its start to its first await, or to the throw or return
\* that comes before it.
Begin(tool, args, vaultId, agentId) ==
    IF tool \in TransactionTools /\ agentId = ""
    THEN Finished(<<>>, Thrown(RequiresAgent(tool)))
    ELSE IF tool = "share_secret" /\ NeedsRecipient(args)
    THEN Finished(<<>>, Returned(RecipientRequired(args)))
    ELSE Continued(FirstRequest(tool, args, vaultId, agentId))

\* ------------------------------------------------- index.ts: top-level code
\* The environment variable whose absence stops a stdio process, "" if none.
MissingEnv ==
    IF env.token = "" THEN "ONECLAW_AGENT_TOKEN"
    ELSE IF env.vaultId = "" THEN "ONECLAW_VAULT_ID"
    ELSE ""

\* `if (transport === "stdio") { ... }`: exit(1) on a missing variable, else
\* construct the shared client.
LoadConfig ==
    /\ phase = "load"
    /\ IF transport = "stdio"
       THEN IF MissingEnv # ""
            THEN /\ phase' = "exit(1)"
                 /\ UNCHANGED <<sharedClient, clients>>
            ELSE /\ clients' = Append(clients, Client(env.token, env.vaultId))
                 /\ sharedClient' = Len(clients) + 1
                 /\ phase' = "config"
       ELSE /\ phase' = "config"
            /\ UNCHANGED <<sharedClient, clients>>
    /\ UNCHANGED <<transport, env, registered, sessions, calls, toolCalls, conn>>
    /\ UNCHANGED <<clientVars, toolVars>>

\* `const server = new FastMCP(serverOpts)`.
CreateServer ==
    /\ phase = "config"
    /\ phase' = "server"
    /\ UNCHANGED <<transport, env, registered, sharedClient, clients, sessions,
                   calls, toolCalls, conn>>
    /\ UNCHANGED <<clientVars, toolVars>>

\* One registerTool(factory): the prototype is built on sharedClient, or on a
\* client constructed for the purpose with empty credentials.
RegisterTool ==
    /\ phase = "server"
    /\ Len(registered) < Len(ToolFactories)
    /\ registered' = Append(registered, ToolFactories[Len(registered) + 1])
    /\ clients' = IF sharedClient # 0 THEN clients
                  ELSE Append(clients, Client("", ""))
    /\ UNCHANGED <<transport, env, phase, sharedClient, sessions, calls,
                   toolCalls, conn>>
    /\ UNCHANGED <<clientVars, toolVars>>

\* The two server.addTool() calls and server.addResource() after them.
AddInlineTools ==
    /\ phase = "server"
    /\ Len(registered) = Len(ToolFactories)
    /\ registered' = registered \o InlineTools
    /\ phase' = "registered"
    /\ UNCHANGED <<transport, env, sharedClient, clients, sessions, calls,
                   toolCalls, conn>>
    /\ UNCHANGED <<clientVars, toolVars>>

\* server.start(): over HTTP streaming when asked for, else over stdio.
StartServer ==
    /\ phase = "registered"
    /\ phase' = "serving"
    /\ UNCHANGED <<transport, env, registered, sharedClient, clients, sessions,
                   calls, toolCalls, conn>>
    /\ UNCHANGED <<clientVars, toolVars>>

\* ------------------------------------------------- index.ts: authenticate
\* auth.replace(/^Bearer\s+/i, ""): drops a leading "Bearer", in any case,
\* with the white space after it, when there is some.
IsBearer(lexeme) == lexeme \in {"Bearer", "bearer", "BEARER"}
RECURSIVE DropSpaces(_)
DropSpaces(lexemes) ==
    IF lexemes # <<>> /\ Head(lexemes) = " " THEN DropSpaces(Tail(lexemes))
    ELSE lexemes
StripBearer(lexemes) ==
    IF Len(lexemes) >= 2 /\ IsBearer(lexemes[1]) /\ lexemes[2] = " "
    THEN DropSpaces(Tail(lexemes))
    ELSE lexemes
\* .trim()
RECURSIVE DropSpacesAtEnd(_)
DropSpacesAtEnd(lexemes) ==
    IF lexemes # <<>> /\ lexemes[Len(lexemes)] = " "
    THEN DropSpacesAtEnd(SubSeq(lexemes, 1, Len(lexemes) - 1))
    ELSE lexemes
TrimLexemes(lexemes) == DropSpacesAtEnd(DropSpaces(lexemes))
\* The string made of the lexemes: "" of none, the lexeme itself of one.
AsString(lexemes) ==
    IF lexemes = <<>> THEN ""
    ELSE IF Len(lexemes) = 1 THEN lexemes[1]
    ELSE lexemes

MissingAuthorization == "Missing Authorization header (Bearer <agent-token>)"
MissingVaultId == "Missing X-Vault-ID header"

\* authenticate that looks at the vault id before the token.
Authenticate_VaultFirst(authorization, xVaultId) ==
    LET bearer == AsString(TrimLexemes(StripBearer(authorization)))
    IN IF xVaultId = ""
       THEN [error |-> AuthError(MissingVaultId), session |-> NoSession]
       ELSE IF bearer = ""
       THEN [error |-> AuthError(MissingAuthorization), session |-> NoSession]
       ELSE [error |-> NoError, session |-> SessionAuth(bearer, xVaultId)]

\* serverOpts.authenticate(request): the session, or the Error it rejects
\* with.  A header that was not sent reads as the empty string.
Authenticate(authorization, xVaultId) ==
    LET bearer == AsString(TrimLexemes(StripBearer(authorization)))
    IN IF bearer = ""
       THEN [error |-> AuthError(MissingAuthorization), session |-> NoSession]
       ELSE IF xVaultId = ""
       THEN [error |-> AuthError(MissingVaultId), session |-> NoSession]
       ELSE [error |-> NoError, session |-> SessionAuth(bearer, xVaultId)]

\* A connection request reaches the hosted server with its headers:
\* authenticate accepts it with a session or rejects it.
Connect(k) ==
    /\ phase = "serving"
    /\ transport = "httpStream"
    /\ ~sessions[k].present
    /\ \E authorization \in AuthorizationHeaders, xVaultId \in VaultIdHeaders :
        LET a == Authenticate(authorization, xVaultId)
        IN /\ sessions' = [sessions EXCEPT ![k] = a.session]
           /\ conn' = [conn EXCEPT ![k] =
                    [tried |-> TRUE, authorization |-> authorization,
                     xVaultId |-> xVaultId, error |-> a.error,
                     calls |-> 0, clients |-> 0]]
    /\ UNCHANGED <<transport, env, phase, registered, sharedClient, clients,
                   calls, toolCalls>>
    /\ UNCHANGED <<clientVars, toolVars>>

\* The rejected connection request of slot k is answered and gone.
Refuse(k) ==
    /\ conn[k].error # NoError
    /\ conn' = [conn EXCEPT ![k] = NoConn]
    /\ UNCHANGED <<transport, env, phase, registered, sharedClient, clients,
                   sessions, calls, toolCalls>>
    /\ UNCHANGED <<clientVars, toolVars>>

\* The session a call of slot k comes with: a stdio server has none to give.
SessionOf(k) == IF transport = "httpStream" THEN sessions[k] ELSE NoSession

\* ------------------------------------------------ index.ts: resolveClient
\* resolveClient that keeps the first client it made for a session and hands
\* it to every later call that comes with a session.
ResolveClient_Memoised(session) ==
    IF session.present
    THEN IF \E i \in DOMAIN clients : i # sharedClient /\ clients[i].token # ""
         THEN LET i == CHOOSE i \in DOMAIN clients :
                          i # sharedClient /\ clients[i].token # ""
              IN [throws |-> FALSE, fresh |-> FALSE, index |-> i,
                  client |-> clients[i]]
         ELSE [throws |-> FALSE, fresh |-> TRUE, index |-> Len(clients) + 1,
               client |-> Client(session.token, session.vaultId)]
    ELSE IF sharedClient # 0
    THEN [throws |-> FALSE, fresh |-> FALSE, index |-> sharedClient,
          client |-> clients[sharedClient]]
    ELSE [throws |-> TRUE, fresh |-> FALSE, index |-> 0, client |-> Client("", "")]

\* resolveClient that looks at sharedClient before it looks at the session.
ResolveClient_SharedFirst(session) ==
    IF sharedClient # 0
    THEN [throws |-> FALSE, fresh |-> FALSE, index |-> sharedClient,
          client |-> clients[sharedClient]]
    ELSE IF session.present
    THEN [throws |-> FALSE, fresh |-> TRUE, index |-> Len(clients) + 1,
          client |-> Client(session.token, session.vaultId)]
    ELSE [throws |-> TRUE, fresh |-> FALSE, index |-> 0, client |-> Client("", "")]

\* resolveClient that hands out again a client it has constructed for the
\* same credentials.
ResolveClient_ReuseForSession(session) ==
    IF session.present
    THEN IF \E i \in DOMAIN clients :
                i # sharedClient /\ clients[i] = Client(session.token, session.vaultId)
         THEN LET i == CHOOSE i \in DOMAIN clients :
                          i # sharedClient
                          /\ clients[i] = Client(session.token, session.vaultId)
              IN [throws |-> FALSE, fresh |-> FALSE, index |-> i,
                  client |-> clients[i]]
         ELSE [throws |-> FALSE, fresh |-> TRUE, index |-> Len(clients) + 1,
               client |-> Client(session.token, session.vaultId)]
    ELSE IF sharedClient # 0
    THEN [throws |-> FALSE, fresh |-> FALSE, index |-> sharedClient,
          client |-> clients[sharedClient]]
    ELSE [throws |-> TRUE, fresh |-> FALSE, index |-> 0, client |-> Client("", "")]

\* resolveClient(session): a client constructed for the call (fresh), or the
\* shared one, or a thrown UserError.
ResolveClient(session) ==
    IF session.present
    THEN [throws |-> FALSE, fresh |-> TRUE, index |-> Len(clients) + 1,
          client |-> Client(session.token, session.vaultId)]
    ELSE IF sharedClient # 0
    THEN [throws |-> FALSE, fresh |-> FALSE, index |-> sharedClient,
          client |-> clients[sharedClient]]
    ELSE [throws |-> TRUE, fresh |-> FALSE, index |-> 0, client |-> Client("", "")]

\* The tools the server has registered, and what a slot asks of it: a call
\* of one of them or a load of the resource.
RegisteredTools == {ToolFactories[i] : i \in DOMAIN ToolFactories}
                   \cup {InlineTools[i] : i \in DOMAIN InlineTools}
Asks ==
    {[what |-> "resource", args |-> <<>>]}
    \cup UNION {{[what |-> t, args |-> a] : a \in CallArgs(t)} : t \in RegisteredTools}

\* A tool's execute() or the resource's load() runs for slot k with the given
\* session, up to its first await: resolveClient(), then the tool up to the
\* client method, whose request() waits for its headers.  share_secret may
\* return before it calls the client.  Whatever the calls of the other slots
\* are doing, this one runs: a call that ended before its first await holds
\* up nothing but its own slot.
Invoke(k, what, args, session) ==
    /\ phase = "serving"
    /\ calls[k].pc = "idle"
    /\ toolCalls < MaxToolCalls
    /\ toolCalls' = toolCalls + 1
    /\ conn' = [conn EXCEPT ![k].calls = @ + 1,
                            ![k].clients = IF ResolveClient(session).fresh
                                           THEN @ + 1 ELSE @]
    /\ LET r == ResolveClient(session)
           e == IF what = "resource"
                THEN Continued(ListSecretsRequest(r.client.vaultId))
                ELSE Begin(what, args, r.client.vaultId, "")
       IN
        IF r.throws
        THEN /\ calls' = [calls EXCEPT ![k] =
                    [pc |-> "done", what |-> what, args |-> args, session |-> session,
                     client |-> 0, step |-> 0, req |-> NoReq,
                     error |-> UserError(NotAuthenticated), outcome |-> "error",
                     text |-> <<>>]]
             /\ UNCHANGED clients
        ELSE /\ clients' = IF r.fresh THEN Append(clients, r.client) ELSE clients
             /\ calls' = [calls EXCEPT ![k] =
                    IF e.next = <<>>
                    THEN [pc |-> "done", what |-> what, args |-> args,
                          session |-> session, client |-> r.index, step |-> 0,
                          req |-> NoReq, error |-> NoError, outcome |-> "ok",
                          text |-> e.ret.payload]
                    ELSE [pc |-> "resolved", what |-> what, args |-> args,
                          session |-> session, client |-> r.index, step |-> 1,
                          req |-> Pending(e.next[1]),
                          error |-> NoError, outcome |-> "", text |-> <<>>]]
    /\ UNCHANGED <<transport, env, phase, registered, sharedClient, sessions>>
    /\ UNCHANGED <<clientVars, toolVars>>

\* The server dispatches a call of slot k: of an authenticated connection when
\* hosted, of the one stdio peer otherwise.
ServeCall(k, ask) ==
    /\ transport = "httpStream" => sessions[k].present
    /\ Invoke(k, ask.what, ask.args, SessionOf(k))

\* request() resumes with the headers of the call's client and issues the
\* fetch.
Send(k) ==
    /\ calls[k].pc = "resolved"
    /\ calls' = [calls EXCEPT ![k].pc = "sent",
                              ![k].req = Request(clients[calls[k].client], @)]
    /\ UNCHANGED <<transport, env, phase, registered, sharedClient, clients,
                   sessions, toolCalls, conn>>
    /\ UNCHANGED <<clientVars, toolVars>>

\* The upstream request of slot k's call settles and execute() runs on: to
\* its end, or, in describe_secret when the listing it asked for came without
\* the path, into getSecret() on the same client, whose request() waits for
\* its headers.
Respond(k) ==
    /\ calls[k].pc = "sent"
    /\ \/ \E o \in ToolOutcomes :
            calls' = [calls EXCEPT ![k].pc = "done", ![k].outcome = o]
       \/ /\ calls[k].what = "describe_secret"
          /\ calls[k].step = 1
          /\ calls' = [calls EXCEPT
                ![k].pc = "resolved",
                ![k].step = 2,
                ![k].req = Pending(GetSecretRequest(clients[calls[k].client].vaultId,
                                                    calls[k].args.path))]
    /\ UNCHANGED <<transport, env, phase, registered, sharedClient, clients,
                   sessions, toolCalls, conn>>
    /\ UNCHANGED <<clientVars, toolVars>>

\* The result has been delivered; the slot is free for another call.
Deliver(k) ==
    /\ calls[k].pc = "done"
    /\ calls' = [calls EXCEPT ![k] = NoCall]
    /\ UNCHANGED <<transport, env, phase, registered, sharedClient, clients,
                   sessions, toolCalls, conn>>
    /\ UNCHANGED <<clientVars, toolVars>>

\* The process as started: any transport, any environment.
RouterInit ==
    /\ ClientOff
    /\ ToolsOff
    /\ transport \in Transports
    /\ env \in [token : EnvTokens, vaultId : EnvVaults]
    /\ phase = "load"
    /\ registered = <<>>
    /\ sharedClient = 0
    /\ clients = <<>>
    /\ sessions = [k \in Slots |-> NoSession]
    /\ calls = [k \in Slots |-> NoCall]
    /\ toolCalls = 0
    /\ conn = [k \in Slots |-> NoConn]

RouterNext ==
    \/ LoadConfig
    \/ CreateServer
    \/ RegisterTool
    \/ AddInlineTools
    \/ StartServer
    \/ \E k \in Slots : Connect(k)
    \/ \E k \in Slots : Refuse(k)
    \/ \E k \in Slots, ask \in Asks : ServeCall(k, ask)
    \/ \E k \in Slots : Send(k)
    \/ \E k \in Slots : Respond(k)
    \/ \E k \in Slots : Deliver(k)

RouterSpec == RouterInit /\ [][RouterNext]_vars

\* resolveClient() applied to every pair of its inputs: a session or none,
\* with sharedClient set or not.
ResolveInit ==
    /\ ClientOff
    /\ ToolsOff
    /\ transport \in Transports
    /\ env = [token |-> "E1", vaultId |-> "ev"]
    /\ phase = "serving"
    /\ registered = ToolFactories \o InlineTools
    /\ sharedClient \in {0, 1}
    /\ clients = IF sharedClient = 1 THEN <<Client(env.token, env.vaultId)>> ELSE <<>>
    /\ sessions = [k \in Slots |-> NoSession]
    /\ calls = [k \in Slots |-> NoCall]
    /\ toolCalls = 0
    /\ conn = [k \in Slots |-> NoConn]

ResolveNext ==
    \/ \E k \in Slots, ask \in Asks, s \in SessionAuths \cup {NoSession} :
            Invoke(k, ask.what, ask.args, s)
    \/ \E k \in Slots : Send(k)
    \/ \E k \in Slots : Respond(k)
    \/ \E k \in Slots : Deliver(k)

ResolveSpec == ResolveInit /\ [][ResolveNext]_vars

\* ------------------------------------------------------ tools: the upstream
\* The upstream service is not part of this repository: it is modelled from
\* the endpoint table of the specification.  A vault maps the paths it holds
\* to the current version of their secret; each PUT creates the next version.
Configs == {[kind |-> "static", agentId |-> "", apiKey |-> ""],
            [kind |-> "agent", agentId |-> "ag1", apiKey |-> "key1"]}

\* A secret as the upstream describes it (SecretMetadata) and as it hands it
\* out (SecretWithValue).
SecretRecord(v, path) ==
    [id |-> <<"id:">> \o path, path |-> path, type |-> v[path].type,
     version |-> v[path].version, metadata |-> v[path].metadata,
     created_at |-> v[path].created_at, expires_at |-> v[path].expires_at]
StoredSecret(v, path) ==
    [f \in DOMAIN SecretRecord(v, path) \cup {"value"} |->
        IF f = "value" THEN v[path].value ELSE SecretRecord(v, path)[f]]

SetKey(f, k, x) == [y \in DOMAIN f \cup {k} |-> IF y = k THEN x ELSE f[y]]
RemoveKey(f, k) == [y \in DOMAIN f \ {k} |-> f[y]]

CreatedAt == "2026-01-01T00:00:00Z"
InitialVaults ==
    {<<>>,
     SetKey(<<>>, <<"k">>, [type |-> "env_bundle", version |-> 1, value |-> BundleValue,
                            metadata |-> <<>>, created_at |-> CreatedAt,
                            expires_at |-> Null]),
     SetKey(<<>>, <<"k">>, [type |-> "api_key", version |-> 1, value |-> PlainValue,
                            metadata |-> [owner |-> "ci"], created_at |-> CreatedAt,
                            expires_at |-> "2027-01-01T00:00:00Z"])}

\* The server reads the secret path back from the URL.
Unescape(esc) ==
    CASE esc = <<"%", "2", "0">> -> " "
      [] esc = <<"%", "2", "3">> -> "#"
      [] esc = <<"%", "2", "5">> -> "%"
      [] esc = <<"%", "2", "F">> -> "/"
      [] esc = <<"%", "3", "F">> -> "?"
      [] OTHER -> "%"
RECURSIVE DecodeURIComponent(_)
DecodeURIComponent(str) ==
    IF str = <<>> THEN <<>>
    ELSE IF Head(str) = "%" /\ Len(str) >= 3
    THEN <<Unescape(SubSeq(str, 1, 3))>> \o DecodeURIComponent(SubSeq(str, 4, Len(str)))
    ELSE <<Head(str)>> \o DecodeURIComponent(Tail(str))

\* The listing of a vault: the metadata of its secrets, in the order of
\* their paths.
PathOrder == << <<"a", " ", "b">>, <<"k">> >>
Listing(v) ==
    LET Held(p) == p \in DOMAIN v
        held == SelectSeq(PathOrder, Held)
    IN [i \in DOMAIN held |-> SecretRecord(v, held[i])]

\* What the other endpoints answer with.
VaultRecord ==
    [id |-> "v2", name |-> "ci-keys", description |-> "", created_by_type |-> "agent",
     created_by |-> "ag1", created_at |-> CreatedAt]
VaultListings == {<<>>, <<VaultRecord>>}
PolicyRecord(req) ==
    [id |-> "p1", vault_id |-> req.url[3],
     principal_type |-> req.body.principal_type,
     principal_id |-> req.body.principal_id,
     permissions |-> req.body.permissions,
     secret_path_pattern |-> req.body.secret_path_pattern]
ShareRecord(req) ==
    [id |-> "sh1", expires_at |-> req.body.expires_at,
     max_access_count |-> req.body.max_access_count,
     share_url |-> "https://1claw.xyz/share/sh1"]
SimulationResults ==
         {[status |-> "success", gas_used |-> "21000"],
          [status |-> "success", gas_used |-> "21000", balance_changes |-> <<>>],
          [status |-> "success", gas_used |-> "21000", gas_estimate_usd |-> "0.42",
           balance_changes |-> << [address |-> "0xabc", change |-> "-1"] >>],
          [status |-> "reverted", gas_used |-> "21000",
           balance_changes |-> << [address |-> "0xabc", token |-> "USDC"] >>,
           error |-> "execution reverted", error_human_readable |-> "out of gas",
           tenderly_dashboard_url |-> "https://dashboard.tenderly.co/sim1"]}
TransactionResults ==
         {[status |-> "success", id |-> "tx1"],
          [status |-> "success", id |-> "tx1", chain |-> "ethereum", chain_id |-> "1",
           to |-> "0xabc", value_wei |-> "1000", tx_hash |-> "0xhash"],
          [status |-> "reverted", id |-> "tx1", chain |-> "ethereum", chain_id |-> "1",
           to |-> "0xabc", value_wei |-> "1000", simulation_id |-> "sim1",
           simulation_status |-> "reverted", error_message |-> "execution reverted"]}

\* The responses of the upstream that do not come from serving the request:
\* fetch() rejecting, or an error status: of a secret that is missing or
\* expired, of a transaction that is malformed or rejected, and a refusal
\* for any request.
ToolFaultStatuses(req) ==
    IF Len(req.url) >= 4 /\ req.url[4] \in {"/secrets", "/secrets/"}
    THEN {403, 404, 410}
    ELSE IF Len(req.url) >= 4 /\ req.url[2] = "/v1/agents/"
    THEN {400, 403, 422}
    ELSE {403}
ToolFaults(req) == {FetchRejected} \cup {Arrived(s) : s \in ToolFaultStatuses(req)}
\* The bodies that come with an error status, and those of any status.
ToolFaultBodies == {Envelope("vault limit hit", "")}
ToolBodies(s) == IF s \in 200..299 THEN OkBodies ELSE ToolFaultBodies

\* What the token endpoint answers to the agent's credentials: a token that
\* outlives the refresh buffer or one that does not, or a failure.
TokenOutcomes == {FetchRejected, Arrived(200), Arrived(404)}
TokenFaultBodies == {Envelope("bad key", "")}
TokenBodies ==
    {[json |-> TRUE, access_token |-> "T1", expires_in |-> e] : e \in ExpiresIn}

\* A response as its headers arrive, the data its body will carry and the
\* vault after it.
Response(out, data, v) == [out |-> out, data |-> data, vault |-> v]

\* A request for one secret, served on the vault v.
ServedSecret(req, v) ==
    LET path == DecodeURIComponent(SubSeq(req.url, 5, Len(req.url)))
    IN CASE req.method = "GET" ->
              IF path \in DOMAIN v
              THEN Response(Arrived(200), StoredSecret(v, path), v)
              ELSE Response(Arrived(404), <<>>, v)
         [] req.method = "PUT" ->
              LET next == SetKey(v, path,
                              [type |-> req.body.type,
                               version |-> IF path \in DOMAIN v
                                           THEN v[path].version + 1 ELSE 1,
                               value |-> req.body.value,
                               metadata |-> Field(req.body, "metadata", <<>>),
                               created_at |-> CreatedAt,
                               expires_at |-> Field(req.body, "expires_at", Null)])
              IN Response(Arrived(201), SecretRecord(next, path), next)
         [] req.method = "DELETE" ->
              IF path \in DOMAIN v
              THEN Response(Arrived(204), <<>>, RemoveKey(v, path))
              ELSE Response(Arrived(404), <<>>, v)

\* The upstream serving a request on the vault v.
Served(req, v) ==
    IF Len(req.url) = 2
    THEN IF req.method = "POST"
         THEN {Response(Arrived(201),
                        [id |-> "v2", name |-> req.body.name,
                         description |-> req.body.description,
                         created_by_type |-> "agent", created_by |-> "ag1",
                         created_at |-> CreatedAt], v)}
         ELSE {Response(Arrived(200), [vaults |-> l], v) : l \in VaultListings}
    ELSE CASE req.url[4] = "/secrets" ->
                {Response(Arrived(200), [secrets |-> Listing(v)], v)}
           [] req.url[4] = "/secrets/" -> {ServedSecret(req, v)}
           [] req.url[4] = "/policies" -> {Response(Arrived(201), PolicyRecord(req), v)}
           [] req.url[4] = "/share" -> {Response(Arrived(201), ShareRecord(req), v)}
           [] req.url[4] = "/transactions/simulate" ->
                {Response(Arrived(200), r, v) : r \in SimulationResults}
           [] req.url[4] = "/transactions" ->
                {Response(Arrived(200), r, v) : r \in TransactionResults}

\* Everything the upstream can answer to a request.
Responses(req, v) ==
    {Response(f, <<>>, v) : f \in ToolFaults(req)} \cup Served(req, v)

\* --------------------------------------------------------- tools: execute
Tools == RegisteredTools

\* The catch clauses of the tools: what is thrown for the error err.
GetSecretCatch(err, path) ==
    IF err.kind = "api" /\ err.status = 410 THEN Expired(path)
    ELSE IF err.kind = "api" /\ err.status = 404 THEN NotFound(path)
    ELSE err
DeleteSecretCatch(err, path) ==
    IF err.kind = "api" /\ err.status = 404 THEN NotFound(path)
    ELSE err
DescribeSecretCatch(err, path) ==
    IF err.kind = "api" /\ err.status = 404 THEN NotFound(path)
    ELSE IF err.kind = "api" /\ err.status = 410 THEN Expired(path)
    ELSE err
EnvBundleCatch(err, path) ==
    IF err.kind = "api" /\ err.status = 410 THEN Expired(path)
    ELSE IF err.kind = "api" /\ err.status = 404 THEN NotFound(path)
    ELSE err
SimulateCatch(err) ==
    IF err.kind = "api" /\ err.status = 400 THEN UserError(err.detail)
    ELSE IF err.kind = "api" /\ err.status = 403
    THEN UserError(<<"Access denied: ">> \o err.detail)
    ELSE err
SubmitCatch(err) ==
    IF err.kind = "api" /\ err.status = 400 THEN UserError(err.detail)
    ELSE IF err.kind = "api" /\ err.status = 403
    THEN UserError(<<"Access denied: ">> \o err.detail)
    ELSE IF err.kind = "api" /\ err.status = 422
    THEN UserError(<<"Transaction rejected: ">> \o err.detail)
    ELSE err

\* get_env_bundle's parser of KEY=VALUE lines.
IsSpace(ch) == ch = " "
RECURSIVE TrimStart(_)
TrimStart(str) ==
    IF str # <<>> /\ IsSpace(Head(str)) THEN TrimStart(Tail(str)) ELSE str
RECURSIVE TrimEnd(_)
TrimEnd(str) ==
    IF str # <<>> /\ IsSpace(str[Len(str)])
    THEN TrimEnd(SubSeq(str, 1, Len(str) - 1)) ELSE str
Trim(str) == TrimEnd(TrimStart(str))
\* indexOf, counting from 1: 0 where JavaScript gives -1.
IndexOf(str, ch) ==
    IF \E i \in DOMAIN str : str[i] = ch
    THEN CHOOSE i \in DOMAIN str : str[i] = ch /\ \A j \in 1..(i - 1) : str[j] # ch
    ELSE 0
RECURSIVE ParseEnv(_)
ParseEnv(lines) ==
    IF lines = <<>> THEN <<>>
    ELSE LET bundle == ParseEnv(SubSeq(lines, 1, Len(lines) - 1))
             trimmed == Trim(lines[Len(lines)])
             eqIdx == IndexOf(trimmed, "=")
         IN IF trimmed = <<>> \/ Head(trimmed) = "#" THEN bundle
            ELSE IF eqIdx = 0 THEN bundle
            ELSE SetKey(bundle, SubSeq(trimmed, 1, eqIdx - 1),
                        SubSeq(trimmed, eqIdx + 1, Len(trimmed)))

\* Texts are kept as the sequence of their parts; lines.join("\n") puts a
\* line break between the lines, each a sequence of parts itself.
JoinLines(lines) == JoinWith(lines, "\n")
\* `${r.f}` of a field the response may lack.
Str(r, f) == Field(r, f, "undefined")
\* `if (r.f)`.
Truthy(r, f) == Field(r, f, "") \notin {"", Null}
\* s.startsWith(prefix).
StartsWith(s, prefix) ==
    Len(prefix) <= Len(s) /\ SubSeq(s, 1, Len(prefix)) = prefix
\* status.toUpperCase().
ToUpperCase(s) ==
    CASE s = "success" -> "SUCCESS"
      [] s = "reverted" -> "REVERTED"
      [] s = "error" -> "ERROR"
      [] s = "pending" -> "PENDING"
      [] s = "signed" -> "SIGNED"
      [] s = "broadcast" -> "BROADCAST"
      [] s = "failed" -> "FAILED"
\* A read of a property of undefined.
TypeError(property) ==
    [kind |-> "TypeError",
     message |-> <<"Cannot read properties of undefined (reading '", property, "')">>]

\* What execute() does once its request has settled with the client result r
\* (an error, or success with the response's data).
ListSecretsTool(args, r, data) ==
    IF r.kind # "ok" THEN Finished(<<>>, Thrown(r))
    ELSE LET Wanted(s) == StartsWith(s.path, Field(args, "prefix", <<>>))
             secrets == IF Field(args, "prefix", <<>>) # <<>>
                        THEN SelectSeq(data.secrets, Wanted) ELSE data.secrets
             lines == [i \in DOMAIN secrets |->
                        <<"- ">> \o secrets[i].path
                        \o <<"  (type: ", secrets[i].type,
                             ", version: ", ToString(secrets[i].version),
                             ", expires: ", Coalesce(secrets[i], "expires_at", "never"), ")">>]
         IN IF Len(secrets) = 0
            THEN Finished(<<>>, Returned(<<"No secrets found in this vault.">>))
            ELSE Finished(<<>>, Returned(<<"Found ", ToString(Len(secrets)), " secret(s):", "\n">>
                                        \o JoinLines(lines)))

\* get_secret that logs the value next to the path.
GetSecretTool_LogsValue(args, r, data) ==
    IF r.kind = "ok"
    THEN Finished(<< <<"secret accessed: ">> \o args.path \o <<"=">> \o data.value[1] >>,
                  Returned([path |-> data.path, type |-> data.type,
                            version |-> data.version, value |-> data.value]))
    ELSE Finished(<<>>, Thrown(GetSecretCatch(r, args.path)))

GetSecretTool(args, r, data) ==
    IF r.kind = "ok"
    THEN Finished(<< <<"secret accessed: ">> \o args.path >>,
                  Returned([path |-> data.path, type |-> data.type,
                            version |-> data.version, value |-> data.value]))
    ELSE Finished(<<>>, Thrown(GetSecretCatch(r, args.path)))

PutSecretTool(args, r, data) ==
    IF r.kind = "ok"
    THEN Finished(<< <<"secret stored: ">> \o args.path >>,
                  Returned(<<"Secret stored at '">> \o args.path
                           \o <<"' (version ", ToString(data.version),
                                ", type: ", data.type, ").">>))
    ELSE Finished(<<>>, Thrown(r))

DeleteSecretTool(args, r, data) ==
    IF r.kind = "ok"
    THEN Finished(<< <<"secret deleted: ">> \o args.path >>,
                  Returned(<<"Secret at '">> \o args.path \o <<"' has been soft-deleted.">>))
    ELSE Finished(<<>>, Thrown(DeleteSecretCatch(r, args.path)))

\* The object describe_secret serialises: six fields of the secret, of which
\* JSON.stringify writes those that are not undefined.
MetadataFields == {"path", "type", "version", "metadata", "created_at", "expires_at"}
Metadata(s) == [f \in MetadataFields \cap DOMAIN s |-> s[f]]

\* describe_secret after listSecrets() (step 1) and after getSecret() (step 2).
DescribeSecretTool(args, step, r, data) ==
    IF step = 1
    THEN IF r.kind # "ok" THEN Finished(<<>>, Thrown(r))
         ELSE IF \E i \in DOMAIN data.secrets : data.secrets[i].path = args.path
         THEN Finished(<<>>, Returned(Metadata(
                data.secrets[CHOOSE i \in DOMAIN data.secrets :
                                data.secrets[i].path = args.path
                                /\ \A j \in 1..(i - 1) : data.secrets[j].path # args.path])))
         ELSE Continued(GetSecretRequest(ToolVaultId, args.path))
    ELSE IF r.kind = "ok"
         THEN Finished(<<>>, Returned(Metadata(data)))
         ELSE Finished(<<>>, Thrown(DescribeSecretCatch(r, args.path)))

CreateVaultTool(args, r, data) ==
    IF r.kind # "ok" THEN Finished(<<>>, Thrown(r))
    ELSE Finished(<<>>, Returned(
            <<"Vault created successfully.", "\n",
              "  ID: ", data.id, "\n",
              "  Name: ", data.name, "\n",
              "  Owner: ", data.created_by_type, ":", data.created_by, "\n", "\n",
              "The vault has been automatically shared with your creator. ",
              "You can now store secrets with put_secret (use the vault list to switch vaults).">>))

ListVaultsTool(args, r, data) ==
    IF r.kind # "ok" THEN Finished(<<>>, Thrown(r))
    ELSE LET vaults == data.vaults
             lines == [i \in DOMAIN vaults |->
                        <<"- ", vaults[i].name, "  (id: ", vaults[i].id,
                          ", created by: ", vaults[i].created_by_type,
                          ", ", vaults[i].created_at, ")">>]
         IN IF Len(vaults) = 0
            THEN Finished(<<>>, Returned(<<"No vaults found. Create one with create_vault.">>))
            ELSE Finished(<<>>, Returned(<<"Found ", ToString(Len(vaults)), " vault(s):", "\n">>
                                        \o JoinLines(lines)))

GrantAccessTool(args, r, data) ==
    IF r.kind # "ok" THEN Finished(<<>>, Thrown(r))
    ELSE Finished(<<>>, Returned(
            <<"Access granted.", "\n",
              "  Policy ID: ", data.id, "\n",
              "  Vault: ", data.vault_id, "\n",
              "  Granted to: ", data.principal_type, ":", data.principal_id, "\n",
              "  Permissions: ">> \o JoinWith([i \in DOMAIN data.permissions |->
                                                <<data.permissions[i]>>], ", ")
            \o <<"\n", "  Path pattern: ", data.secret_path_pattern>>))

ShareSecretTool(args, r, data) ==
    IF r.kind # "ok" THEN Finished(<<>>, Thrown(r))
    ELSE LET recipientLabel ==
                IF args.recipient_type = "creator"
                THEN <<"your creator (the human who registered this agent)">>
                ELSE <<args.recipient_type>>
                     \o (IF Field(args, "recipient_id", "") # ""
                         THEN <<" (", args.recipient_id, ")">> ELSE <<>>)
         IN Finished(<<>>, Returned(
                <<"Secret shared successfully.", "\n", "  Share ID: ", data.id, "\n",
                  "  Recipient: ">> \o recipientLabel
                \o <<"\n", "  Expires: ", data.expires_at, "\n",
                     "  Max accesses: ", ToString(data.max_access_count), "\n",
                     "  URL: ", data.share_url, "\n", "\n",
                     "The recipient must accept the share before they can access the secret.">>))

RotateAndStoreTool(args, r, data) ==
    IF r.kind = "ok"
    THEN Finished(<< <<"secret rotated: ">> \o args.path >>,
                  Returned(<<"Rotated secret at '">> \o args.path
                           \o <<"'. New version: ", ToString(data.version), ".">>))
    ELSE Finished(<<>>, Thrown(r))

GetEnvBundleTool(args, r, data) ==
    IF r.kind = "ok"
    THEN Finished(<< <<"env_bundle accessed: ">> \o args.path >>,
                  IF data.type # "env_bundle"
                  THEN Thrown(UserError(<<"Secret at '">> \o args.path \o <<"' is type '",
                                          data.type, "', not 'env_bundle'.">>))
                  ELSE Returned(ParseEnv(data.value)))
    ELSE Finished(<<>>, Thrown(EnvBundleCatch(r, args.path)))

\* One line for each balance change: `token_symbol ?? token ?? "ETH"`.
BalanceLines(changes) ==
    [i \in DOMAIN changes |->
        <<"  ", changes[i].address, ": ", Coalesce(changes[i], "change", "?"), " ",
          Coalesce(changes[i], "token_symbol", Coalesce(changes[i], "token", "ETH"))>>]

SimulateTransactionTool(args, r, data) ==
    IF r.kind # "ok" THEN Finished(<<>>, Thrown(SimulateCatch(r)))
    ELSE LET logged == << <<"simulation: ", data.status, " (gas: ", data.gas_used, ")">> >>
             lines ==
                << <<"Simulation ", ToUpperCase(data.status)>>,
                   <<"Gas used: ", data.gas_used>> >>
                \o (IF Truthy(data, "gas_estimate_usd")
                    THEN << <<"Gas estimate: ", data.gas_estimate_usd>> >> ELSE <<>>)
                \o (IF Len(data.balance_changes) > 0
                    THEN << <<>>, <<"Balance changes:">> >> \o BalanceLines(data.balance_changes)
                    ELSE <<>>)
                \o (IF Truthy(data, "error")
                    THEN << <<>>, <<"Error: ", data.error>> >> ELSE <<>>)
                \o (IF Truthy(data, "error_human_readable")
                    THEN << <<"Reason: ", data.error_human_readable>> >> ELSE <<>>)
                \o (IF Truthy(data, "tenderly_dashboard_url")
                    THEN << <<>>, <<"Tenderly: ", data.tenderly_dashboard_url>> >> ELSE <<>>)
         IN IF "balance_changes" \notin DOMAIN data
            THEN Finished(logged, Thrown(TypeError("length")))
            ELSE Finished(logged, Returned(JoinLines(lines)))

SubmitTransactionTool(args, r, data) ==
    IF r.kind # "ok" THEN Finished(<<>>, Thrown(SubmitCatch(r)))
    ELSE LET lines ==
                << <<"Transaction ", ToUpperCase(data.status)>>,
                   <<"ID: ", data.id>>,
                   <<"Chain: ", Str(data, "chain"), " (", Str(data, "chain_id"), ")">>,
                   <<"To: ", Str(data, "to")>>,
                   <<"Value: ", Str(data, "value_wei"), " wei">> >>
                \o (IF Truthy(data, "tx_hash")
                    THEN << <<"Tx hash: ", data.tx_hash>> >> ELSE <<>>)
                \o (IF Truthy(data, "simulation_id")
                    THEN << <<"Simulation: ", data.simulation_id,
                              " (", Str(data, "simulation_status"), ")">> >> ELSE <<>>)
                \o (IF Truthy(data, "error_message")
                    THEN << <<"Error: ", data.error_message>> >> ELSE <<>>)
         IN Finished(<< <<"transaction: ", data.status, " (", data.id, ")">> >>,
                     Returned(JoinLines(lines)))

Execute(i, r, data) ==
    CASE i.tool = "list_secrets" -> ListSecretsTool(i.args, r, data)
      [] i.tool = "get_secret" -> GetSecretTool(i.args, r, data)
      [] i.tool = "put_secret" -> PutSecretTool(i.args, r, data)
      [] i.tool = "delete_secret" -> DeleteSecretTool(i.args, r, data)
      [] i.tool = "describe_secret" -> DescribeSecretTool(i.args, i.step, r, data)
      [] i.tool = "create_vault" -> CreateVaultTool(i.args, r, data)
      [] i.tool = "list_vaults" -> ListVaultsTool(i.args, r, data)
      [] i.tool = "grant_access" -> GrantAccessTool(i.args, r, data)
      [] i.tool = "share_secret" -> ShareSecretTool(i.args, r, data)
      [] i.tool = "rotate_and_store" -> RotateAndStoreTool(i.args, r, data)
      [] i.tool = "get_env_bundle" -> GetEnvBundleTool(i.args, r, data)
      [] i.tool = "simulate_transaction" -> SimulateTransactionTool(i.args, r, data)
      [] i.tool = "submit_transaction" -> SubmitTransactionTool(i.args, r, data)

\* The path an invocation works on, <<>> when its tool takes none.
PathOf(i) == Field(i.args, "path", <<>>)

\* A tool is invoked, whatever the other invocations on the client are doing,
\* and takes the lowest free slot c: execute() runs to the throw or return
\* that comes before its first call of the client, without entering
\* request(), or into request(), where it waits for the token exchange or for
\* the headers.
StartTool(c, tool, args) ==
    /\ inv[c].pc = "idle"
    /\ \A d \in Callers : d < c => inv[d].pc # "idle"
    /\ invocations < MaxInvocations
    /\ invocations' = invocations + 1
    /\ LET e == Begin(tool, args, ToolVaultId, AgentId(cfg)) IN
        IF e.next = <<>>
        THEN /\ inv' = [inv EXCEPT ![c] =
                            [NoInv EXCEPT !.pc = "done", !.tool = tool, !.args = args]]
             /\ ret' = [ret EXCEPT ![c] = e.ret]
             /\ UNCHANGED <<clientVars, reqs>>
        ELSE /\ Enter(c)
             /\ inv' = [inv EXCEPT ![c] =
                            [NoInv EXCEPT !.pc = "wait", !.tool = tool, !.args = args,
                                !.step = 1, !.req = e.next[1],
                                !.expect = IF tool = "get_secret"
                                              /\ args.path \in DOMAIN written
                                           THEN <<written[args.path]>> ELSE <<>>]]
             /\ reqs' = [reqs EXCEPT ![c] =
                            IF NeedsExchange THEN <<ExchangeRequest(cfg)>> ELSE <<>>]
             /\ UNCHANGED ret
    /\ UNCHANGED <<cfg, vault, logs, written>>
    /\ UNCHANGED routerVars

\* request() issues the fetch of the invocation's request.
SendRequest(c) ==
    /\ inv[c].pc = "wait"
    /\ Fetch(c)
    /\ reqs' = [reqs EXCEPT ![c] = Append(@, inv[c].req)]
    /\ UNCHANGED <<cfg, vault, inv, logs, ret, written, invocations>>
    /\ UNCHANGED routerVars

\* The token endpoint answers the exchange request, then its body arrives.
TokenRespond(c) ==
    /\ pc[c] = "exch"
    /\ inv[c].pc = "wait"
    /\ \E out \in TokenOutcomes : ExchangeSettles(c, out)
    /\ UNCHANGED <<kind, cfgToken, token, tokenExpiresAt, now, exchOfCall, exchHeaders,
                   primOfCall, authHeader, callsStarted, tokenSrc, expirySrc,
                   lastResp>>
    /\ UNCHANGED <<routerVars, toolVars>>

TokenErrorBody(c) ==
    /\ pc[c] = "exerr"
    /\ inv[c].pc = "wait"
    /\ \E body \in TokenFaultBodies : ExchangeFails(c, body)
    /\ UNCHANGED <<kind, cfgToken, token, tokenExpiresAt, now, exchOfCall, exchHeaders,
                   primOfCall, authHeader, callsStarted, tokenSrc, expirySrc,
                   lastResp>>
    /\ UNCHANGED <<routerVars, toolVars>>

TokenBody(c) ==
    /\ pc[c] = "exbody"
    /\ inv[c].pc = "wait"
    /\ \E data \in TokenBodies : ExchangeStores(c, data)
    /\ UNCHANGED <<kind, cfgToken, now, exchOfCall, exchHeaders, primOfCall, authHeader,
                   callsStarted>>
    /\ UNCHANGED <<routerVars, toolVars>>

\* The upstream answers the request in flight: the fetch settles, with a
\* rejection or with the response, whose body is still to come.  A write the
\* upstream served supersedes the earlier writes of the path.
UpstreamRespond(c) ==
    /\ pc[c] = "fetch"
    /\ inv[c].pc = "wait"
    /\ \E resp \in Responses(inv[c].req, vault) :
        LET wrote == resp.vault # vault
            path == PathOf(inv[c])
        IN /\ FetchSettles(c, resp.out)
           /\ vault' = resp.vault
           /\ inv' = [d \in Callers |->
                IF d = c
                THEN [inv[c] EXCEPT !.data = resp.data,
                                    !.clean = wrote,
                                    !.before = IF wrote /\ path \in DOMAIN vault
                                               THEN vault[path].version ELSE 0]
                ELSE IF wrote /\ inv[d].pc # "idle" /\ PathOf(inv[d]) = path
                THEN [inv[d] EXCEPT !.clean = FALSE,
                                    !.expect = IF pc[d] \in {"body", "done"}
                                               THEN @ ELSE <<>>]
                ELSE inv[d]]
           /\ written' = IF wrote THEN RemoveKey(written, path) ELSE written
    /\ UNCHANGED <<kind, cfgToken, token, tokenExpiresAt, now, exchOfCall, exchHeaders,
                   primOfCall, authHeader, callsStarted, tokenSrc, expirySrc,
                   lastResp>>
    /\ UNCHANGED <<cfg, reqs, logs, ret, invocations>>
    /\ UNCHANGED routerVars

\* The body of the response arrives, or fails to parse, and request() returns
\* or throws.
UpstreamBody(c) ==
    /\ pc[c] = "body"
    /\ inv[c].pc = "wait"
    /\ \E body \in ToolBodies(resStatus[c]) : BodySettles(c, body)
    /\ UNCHANGED <<kind, cfgToken, token, tokenExpiresAt, now, exchOfCall, exchHeaders,
                   primOfCall, authHeader, callsStarted, tokenSrc, expirySrc,
                   lastResp>>
    /\ UNCHANGED <<routerVars, toolVars>>

\* request() has settled and execute() runs on: to its end, logging and
\* returning or throwing, or, in describe_secret, into its second request.
Resume(c) ==
    /\ pc[c] = "done"
    /\ inv[c].pc = "wait"
    /\ LET e == Execute(inv[c], done[c].result, inv[c].data) IN
        IF e.next = <<>>
        THEN /\ inv' = [inv EXCEPT ![c].pc = "done"]
             /\ logs' = [logs EXCEPT ![c] = @ \o e.logs]
             /\ ret' = [ret EXCEPT ![c] = e.ret]
             /\ UNCHANGED <<kind, cfgToken, token, tokenExpiresAt, now, pc, resStatus,
                            exchOfCall, exchHeaders, primOfCall, authHeader, done,
                            callsStarted, tokenSrc, expirySrc, lastResp, reqs>>
        ELSE /\ Reenter(c)
             /\ inv' = [inv EXCEPT ![c].step = @ + 1, ![c].req = e.next[1],
                                   ![c].data = <<>>]
             /\ reqs' = [reqs EXCEPT ![c] =
                            @ \o (IF NeedsExchange THEN <<ExchangeRequest(cfg)>> ELSE <<>>)]
             /\ UNCHANGED <<logs, ret>>
    /\ UNCHANGED <<cfg, vault, written, invocations>>
    /\ UNCHANGED routerVars

\* The invocation's promise has settled and the server takes the result; the
\* invocation had called request() unless it ended before its first await.  A
\* put that returned is the last write of its path this client knows of,
\* unless the upstream has served another write of the path since.
Finish(c) ==
    /\ inv[c].pc = "done"
    /\ IF pc[c] = "done" THEN Leave(c) ELSE UNCHANGED clientVars
    /\ written' =
        IF inv[c].tool \in {"put_secret", "rotate_and_store"}
           /\ ret[c].kind = "return" /\ inv[c].clean
        THEN SetKey(written, inv[c].args.path,
                    [value |-> inv[c].args.value,
                     type |-> IF inv[c].tool = "rotate_and_store"
                              THEN "api_key" ELSE inv[c].args.type,
                     before |-> inv[c].before])
        ELSE written
    /\ inv' = [inv EXCEPT ![c] = NoInv]
    /\ reqs' = [reqs EXCEPT ![c] = <<>>]
    /\ logs' = [logs EXCEPT ![c] = <<>>]
    /\ ret' = [ret EXCEPT ![c] = NoRet]
    /\ UNCHANGED <<cfg, vault, invocations>>
    /\ UNCHANGED routerVars

\* One client, as constructed from either configuration, and the vault it is
\* configured with.
ToolInit ==
    /\ RouterOff
    /\ cfg \in Configs
    /\ ClientInit
    /\ kind = cfg.kind
    /\ kind = "static" => cfgToken = "S1"
    /\ vault \in InitialVaults
    /\ inv = [c \in Callers |-> NoInv]
    /\ reqs = [c \in Callers |-> <<>>]
    /\ logs = [c \in Callers |-> <<>>]
    /\ ret = [c \in Callers |-> NoRet]
    /\ written = <<>>
    /\ invocations = 0

\* The tools index.ts registers are run by the server; the two transaction
\* tools are exported factories it does not register, run by whoever
\* imports them.
ToolNext ==
    \/ \E c \in Callers, tool \in Tools \cup TransactionTools :
            \E args \in ToolArgs(tool) : StartTool(c, tool, args)
    \/ \E c \in Callers : TokenRespond(c)
    \/ \E c \in Callers : TokenErrorBody(c)
    \/ \E c \in Callers : TokenBody(c)
    \/ \E c \in Callers : ReadToken(c)
    \/ \E c \in Callers : SendRequest(c)
    \/ \E c \in Callers : UpstreamRespond(c)
    \/ \E c \in Callers : UpstreamBody(c)
    \/ \E c \in Callers : Resume(c)
    \/ \E c \in Callers : Finish(c)

ToolSpec == ToolInit /\ [][ToolNext]_vars

\* ================================================================== claims
Range(seq) == {seq[i] : i \in DOMAIN seq}

\* The caller whose call has just settled on a response to its primary
\* request: `done` then holds that response and what request() made of it.
SettledOnResponse(c) ==
    pc[c] = "done" /\ primOfCall[c] >= 1 /\ ~done[c].res.transport

SettledOnError(c) ==
    SettledOnResponse(c) /\ ~(done[c].res.status >= 200 /\ done[c].res.status < 300)

\* The pair the cache holds before any exchange response has been stored.
InitialPair == <<IF kind = "static" THEN cfgToken ELSE "", 0>>

\* The pair that the exchange response processed last yields.
LastResponsePair ==
    <<lastResp.access_token, lastResp.at + lastResp.expires_in * 1000>>

\* C1: with a static token no token-exchange call is ever issued by any call,
\* whatever came before, and every primary request carries exactly the
\* configured token in its Authorization header.
C1_StaticTokenNeverExchanges ==
    kind = "static" =>
        /\ token = cfgToken
        /\ \A c \in Callers :
            /\ exchOfCall[c] = 0
            /\ pc[c] \notin {"exch", "exerr", "exbody"}
            /\ primOfCall[c] >= 1 => authHeader[c] = cfgToken

\* A static client's second call has settled on an error response, after an
\* earlier call: its request carried the configured token.
C1_Witness ==
    /\ kind = "static"
    /\ callsStarted >= 2
    /\ \E c \in Callers :
        /\ SettledOnError(c)
        /\ authHeader[c] = cfgToken
        /\ cfgToken \in StaticTokens

\* C3: in every state (each is a point where another caller may run) the
\* cached token and expiry are the initial pair or the pair of one single
\* exchange response, never the token of one response with the expiry of
\* another.
C3_NoTornPair ==
    /\ tokenSrc = expirySrc
    /\ IF tokenSrc = 0
       THEN <<token, tokenExpiresAt>> = InitialPair
       ELSE /\ lastResp.id = tokenSrc
            /\ <<token, tokenExpiresAt>> = LastResponsePair

\* One caller's response has been stored while another caller's refresh is
\* still in flight, later on the clock.
C3_Witness ==
    /\ tokenSrc # 0
    /\ now > lastResp.at
    /\ \E c \in Callers : pc[c] \in {"exch", "exbody"} /\ tokenSrc # c

\* C6: a call issues at most one exchange fetch and at most one primary fetch,
\* whatever the outcomes; a call whose token resolution succeeded has issued
\* exactly one primary fetch when it settles, and its result is made from the
\* response to that fetch.
C6_OneFetchEach ==
    \A c \in Callers :
        /\ exchOfCall[c] <= 1
        /\ primOfCall[c] <= 1
        /\ pc[c] = "fetch" => primOfCall[c] = 1
        /\ pc[c] = "done" =>
            /\ done[c].result.from \in {"exchange", "primary"}
            /\ done[c].result.from = "exchange" => primOfCall[c] = 0 /\ exchOfCall[c] = 1
            /\ done[c].result.from = "primary" =>
                /\ primOfCall[c] = 1
                /\ done[c].result = RequestResult(done[c].res)

\* A call that refreshed the token has settled on a transport failure of its
\* primary request: one exchange fetch, one primary fetch, no more.
C6_Witness ==
    \E c \in Callers :
        /\ pc[c] = "done"
        /\ done[c].res.transport
        /\ exchOfCall[c] = 1
        /\ primOfCall[c] = 1

\* C7: the error made from a non-2xx response to a primary request is an
\* ApiError whose status is that response's HTTP status, whatever the body
\* and whichever rewrite of the detail applied.
C7_StatusPreserved ==
    \A c \in Callers :
        SettledOnError(c) =>
            /\ done[c].result.kind = "api"
            /\ done[c].result.status = done[c].res.status

\* A 403 whose detail was rewritten still carries 403.
C7_Witness ==
    \E c \in Callers :
        /\ SettledOnError(c)
        /\ done[c].res.status = 403
        /\ done[c].res.body.type = ResourceLimitType
        /\ done[c].result.detail # <<done[c].res.body.detail>>
        /\ done[c].result.status = 403

\* C8: a 402 response to a primary request yields the one fixed
\* billing-upgrade message as detail, whether the body is not JSON or an
\* envelope with any detail and any type.
C8_QuotaMessageOn402 ==
    \A c \in Callers :
        SettledOnResponse(c) /\ done[c].res.status = 402 =>
            /\ done[c].result.kind = "api"
            /\ done[c].result.detail =
                <<"Quota exhausted. Ask your human to upgrade the plan, add prepaid credits, or enable x402 micropayments at ",
                  "https://1claw.xyz/settings/billing">>

\* A 402 whose envelope carries its own detail and a type.
C8_Witness ==
    \E c \in Callers :
        /\ SettledOnResponse(c)
        /\ done[c].res.status = 402
        /\ done[c].res.body.json
        /\ done[c].res.body.detail # ""
        /\ done[c].res.body.type = ResourceLimitType
        /\ done[c].result.detail = QuotaMessage

\* C9: a 403 response whose envelope has type resource_limit_exceeded yields
\* an ApiError with status 403 whose detail contains the envelope's own
\* detail text and the billing-upgrade URL.
C9_ResourceLimitDetail ==
    \A c \in Callers :
        (/\ SettledOnResponse(c)
         /\ done[c].res.status = 403
         /\ done[c].res.body.json
         /\ done[c].res.body.type = "resource_limit_exceeded") =>
            /\ done[c].result.kind = "api"
            /\ done[c].result.status = 403
            /\ done[c].res.body.detail # "" =>
                  done[c].res.body.detail \in Range(done[c].result.detail)
            /\ "https://1claw.xyz/settings/billing" \in Range(done[c].result.detail)

\* A resource-limit 403 with a detail of its own.
C9_Witness ==
    \E c \in Callers :
        /\ SettledOnResponse(c)
        /\ done[c].res.status = 403
        /\ done[c].res.body.type = ResourceLimitType
        /\ done[c].res.body.detail = "vault limit hit"
        /\ Len(done[c].result.detail) = 4

\* C10: a non-2xx response that is neither a 402 nor a 403 of type
\* resource_limit_exceeded yields as detail exactly the envelope's detail when
\* the body parses and carries a (non-empty) one, and "HTTP <status>"
\* otherwise; a 403 of another type or of no type is not rewritten.
C10_DetailPassedThrough ==
    \A c \in Callers :
        (/\ SettledOnError(c)
         /\ done[c].res.status # 402
         /\ ~(/\ done[c].res.status = 403
              /\ done[c].res.body.json
              /\ done[c].res.body.type = "resource_limit_exceeded")) =>
            /\ done[c].result.kind = "api"
            /\ done[c].result.detail =
                IF done[c].res.body.json /\ done[c].res.body.detail # ""
                THEN <<done[c].res.body.detail>>
                ELSE <<"HTTP ", ToString(done[c].res.status)>>

\* A 403 of another type keeps its envelope's detail.
C10_Witness ==
    \E c \in Callers :
        /\ SettledOnError(c)
        /\ done[c].res.status = 403
        /\ done[c].res.body.type = "forbidden"
        /\ done[c].res.body.detail # ""
        /\ done[c].result.detail = <<done[c].res.body.detail>>

\* ------------------------------------------------- claims about the cache
\* Caller c enters request() in this step.
CallStep(c) == pc[c] = "idle" /\ pc'[c] # "idle"

\* Caller c's call settles in this step.
SettleStep(c) == pc[c] # "done" /\ pc'[c] = "done"

\* The response to caller c's exchange is stored in this step.
StoreStep(c) == pc[c] = "exbody" /\ pc'[c] = "hdr"

\* What is the same in the original and the amended C2: the first call issues
\* one exchange call, no call issues a second one, a call that issued none
\* leaves the cache alone, and a stored response replaces token and expiry.
C2_Common(c) ==
    /\ CallStep(c) /\ callsStarted = 0 => pc'[c] = "exch" /\ exchOfCall'[c] = 1
    /\ pc[c] # "idle" /\ pc'[c] # "idle" => exchOfCall'[c] = exchOfCall[c]
    /\ pc[c] # "idle" /\ exchOfCall[c] = 0 => <<token, tokenExpiresAt>>' = <<token, tokenExpiresAt>>
    /\ StoreStep(c) =>
        /\ lastResp'.id = c /\ lastResp'.at = now
        /\ token' = lastResp'.access_token
        /\ tokenExpiresAt' = now + lastResp'.expires_in * 1000
        /\ tokenSrc' = c /\ expirySrc' = c

\* C2 (as amended): with an exchangeable identity and calls that do not
\* overlap, the first call issues exactly one exchange call; a later call made
\* while a non-empty token is cached and now < expires_at - 60 s issues none
\* and leaves the cache unchanged; any other later call issues exactly one
\* exchange call and, when that exchange succeeds, replaces the cached token
\* and expiry with that response's.
C2_SequentialRefresh ==
    [][kind = "agent" =>
        \A c \in Callers :
            /\ C2_Common(c)
            /\ (/\ CallStep(c) /\ callsStarted > 0
                /\ token # "" /\ now < tokenExpiresAt - 60 * 1000) =>
                    /\ pc'[c] = "hdr" /\ exchOfCall'[c] = 0
                    /\ <<token, tokenExpiresAt>>' = <<token, tokenExpiresAt>>
            /\ (/\ CallStep(c) /\ callsStarted > 0
                /\ ~(token # "" /\ now < tokenExpiresAt - 60 * 1000)) =>
                    pc'[c] = "exch" /\ exchOfCall'[c] = 1
            /\ (SettleStep(c) /\ exchOfCall[c] = 1 /\ done'[c].result.from = "primary") =>
                    /\ tokenSrc' = c /\ expirySrc' = c
                    /\ <<token, tokenExpiresAt>>' = LastResponsePair'
      ]_vars

\* C2 (as stated): a later call made while now < expires_at - 60 s issues no
\* exchange call, and the first call made once now >= expires_at - 60 s
\* issues one and, by the time it settles, has replaced the token and expiry
\* that were cached.
C2_Original ==
    [][kind = "agent" =>
        \A c \in Callers :
            /\ C2_Common(c)
            /\ (/\ CallStep(c) /\ callsStarted > 0
                /\ now < tokenExpiresAt - 60 * 1000) =>
                    /\ pc'[c] = "hdr" /\ exchOfCall'[c] = 0
                    /\ <<token, tokenExpiresAt>>' = <<token, tokenExpiresAt>>
            /\ (/\ CallStep(c) /\ callsStarted > 0
                /\ now >= tokenExpiresAt - 60 * 1000) =>
                    pc'[c] = "exch" /\ exchOfCall'[c] = 1
            /\ (SettleStep(c) /\ exchOfCall[c] = 1 /\ callsStarted > 1 /\ tokenSrc # 0) =>
                    /\ tokenSrc' = c /\ expirySrc' = c
                    /\ lastResp'.id = c
                    /\ <<token, tokenExpiresAt>>' = LastResponsePair'
      ]_vars

\* The third of three sequential calls is refreshing: the first stored a
\* token, the second was served from the cache (the token is still the first
\* response's), and now the buffer has been reached.
C2_Witness ==
    /\ kind = "agent"
    /\ callsStarted = 3
    /\ tokenSrc # 0
    /\ token # ""
    /\ lastResp.at = 0
    /\ now >= tokenExpiresAt - 60 * 1000
    /\ now < tokenExpiresAt
    /\ \E c \in Callers : pc[c] = "exch" /\ exchOfCall[c] = 1

\* C4: a caller that finds no fresh token issues its own exchange call even
\* while other callers' exchanges are in flight; a call fails in the exchange
\* only if its own exchange failed (non-2xx, transport, unparsable body), so a
\* caller whose exchange succeeds goes on to its primary request; and once no
\* exchange is in flight the cache holds the pair of the response processed
\* last.
C4_RedundantExchanges ==
    [][kind = "agent" =>
        /\ \A c \in Callers :
            /\ (CallStep(c) /\ ~(token # "" /\ now < tokenExpiresAt - 60 * 1000)) =>
                    pc'[c] = "exch" /\ exchOfCall'[c] = 1
            /\ StoreStep(c) => <<token, tokenExpiresAt>>' = LastResponsePair' /\ lastResp'.id = c
            /\ pc[c] = "hdr" => pc'[c] \in {"hdr", "send"}
            /\ pc[c] = "send" => pc'[c] \in {"send", "fetch"}
            /\ (SettleStep(c) /\ primOfCall[c] = 0) =>
                    \/ done'[c].result.kind \in {"transport", "parse"}
                    \/ /\ done'[c].result.kind = "api"
                       /\ ~(done'[c].result.status >= 200 /\ done'[c].result.status < 300)
        /\ ((\A c \in Callers : pc'[c] \notin {"exch", "exerr", "exbody"}) /\ lastResp'.id # 0) =>
                <<token, tokenExpiresAt>>' = LastResponsePair'
      ]_vars

\* Both callers' exchanges were in flight at once; both have been stored, and
\* the cache holds the second caller's pair, which differs from the first's.
C4_Witness ==
    /\ kind = "agent"
    /\ callsStarted = 2
    /\ \A c \in Callers : pc[c] = "fetch" /\ exchOfCall[c] = 1
    /\ authHeader[1] = "T1"
    /\ authHeader[2] = "T2"
    /\ token = "T2"
    /\ lastResp.id = 2

\* C5 (as stated): when resolve() has completed successfully for an
\* exchangeable identity, the token about to be put in the Authorization
\* header is non-empty, comes from a completed exchange, and its cached expiry
\* is later than the current time.
C5_Original ==
    kind = "agent" =>
        \A c \in Callers :
            pc[c] = "hdr" =>
                /\ token # ""
                /\ tokenSrc # 0
                /\ tokenExpiresAt > now

\* ------------------------------------------------------------------ C11
\* C11 (as stated): for every non-2xx response whose body is not valid JSON
\* the error's detail is "HTTP <status>".
C11_Original ==
    \A c \in Callers :
        SettledOnError(c) /\ ~done[c].res.body.json =>
            done[c].result.detail = <<"HTTP ", ToString(done[c].res.status)>>

\* C11: for every non-2xx response to a primary request, other than a 402,
\* whose body is not valid JSON, the call ends in an API error whose detail is
\* "HTTP <status>" built from that response's status.
C11_HttpStatusFallback ==
    \A c \in Callers :
        SettledOnError(c) /\ ~done[c].res.body.json /\ done[c].res.status # 402 =>
            /\ done[c].result.kind = "api"
            /\ done[c].result.detail = <<"HTTP ", ToString(done[c].res.status)>>

\* A 403 whose body is not JSON has been turned into "HTTP 403".
C11_Witness ==
    \E c \in Callers :
        /\ SettledOnError(c)
        /\ done[c].res.status = 403
        /\ ~done[c].res.body.json
        /\ done[c].result.detail = <<"HTTP ", "403">>

\* ------------------------------------------------------------------ C12
\* C12: a 204 response to a primary request ends the call in the void success
\* whatever its body is (the body is not read, so one that would not parse
\* does no harm); for every other 2xx status the body is parsed: the result
\* is the parsed value, or the parse failure.
C12_NoContentSkipsBody ==
    \A c \in Callers :
        SettledOnResponse(c) /\ IsOk(done[c].res.status) =>
            IF done[c].res.status = 204
            THEN done[c].result = Success("undefined")
            ELSE IF done[c].res.body.json
            THEN done[c].result = Success("json")
            ELSE done[c].result = ParseError("primary")

\* A 204 whose body is not JSON has ended in the void success.
C12_Witness ==
    \E c \in Callers :
        /\ SettledOnResponse(c)
        /\ done[c].res.status = 204
        /\ ~done[c].res.body.json
        /\ done[c].result.kind = "ok"
        /\ done[c].result.detail = <<"undefined">>

\* ------------------------------------------------------------------ C13
\* C13: a 2xx response other than 204 whose body is not valid JSON ends the
\* call in an error that is not an API error and carries no status; the call
\* never completes with a success value.
C13_MalformedSuccessIsError ==
    \A c \in Callers :
        (/\ SettledOnResponse(c)
         /\ IsOk(done[c].res.status)
         /\ done[c].res.status # 204
         /\ ~done[c].res.body.json) =>
            /\ done[c].result.kind = "parse"
            /\ done[c].result.kind \notin {"ok", "api"}
            /\ done[c].result.status = 0

\* A 200 whose body is not JSON has ended in the parse error.
C13_Witness ==
    \E c \in Callers :
        /\ SettledOnResponse(c)
        /\ done[c].res.status = 200
        /\ ~done[c].res.body.json
        /\ done[c].result.kind = "parse"

\* ------------------------------------------------------------------ C14
\* C14: when the fetch of the primary request or of the token exchange rejects
\* (no status is received), the call ends in the transport error, which is
\* neither an API error nor the parse error nor a success and carries no
\* status, and the call has issued no request after the one that failed: no
\* second fetch of either kind, and no primary fetch after a failed exchange.
C14_TransportErrorIsFinal ==
    \A c \in Callers :
        pc[c] = "done" /\ done[c].res.transport =>
            /\ done[c].result.kind = "transport"
            /\ done[c].result.kind \notin {"api", "parse", "ok"}
            /\ done[c].result.status = 0
            /\ exchOfCall[c] <= 1
            /\ primOfCall[c] <= 1
            /\ done[c].result.from = "exchange" => primOfCall[c] = 0
            /\ done[c].result.from = "primary" => primOfCall[c] = 1

\* The exchange fetch of a call has rejected: the call has ended without a
\* primary fetch.
C14_Witness ==
    \E c \in Callers :
        /\ pc[c] = "done"
        /\ done[c].res.transport
        /\ done[c].result.from = "exchange"
        /\ exchOfCall[c] = 1
        /\ primOfCall[c] = 0

\* ------------------------------------------------------------------ C15
\* C15: the exchange request carries no Authorization header; when the
\* exchange answers with a non-2xx status the call fails with an API error
\* whose status is that status and whose detail is "Agent auth failed: "
\* followed by the envelope's detail or, without one, "HTTP <status>", and the
\* primary request is never issued.
C15_ExchangeFailure ==
    \A c \in Callers :
        /\ exchOfCall[c] >= 1 =>
            /\ exchHeaders[c] # {}
            /\ "Authorization" \notin exchHeaders[c]
        /\ (/\ pc[c] = "done"
            /\ done[c].result.from = "exchange"
            /\ ~done[c].res.transport
            /\ ~IsOk(done[c].res.status)) =>
                /\ done[c].result.kind = "api"
                /\ done[c].result.status = done[c].res.status
                /\ done[c].result.detail =
                      <<"Agent auth failed: ">> \o
                      (IF done[c].res.body.json /\ done[c].res.body.detail # ""
                       THEN <<done[c].res.body.detail>>
                       ELSE <<"HTTP ", ToString(done[c].res.status)>>)
                /\ primOfCall[c] = 0
                /\ authHeader[c] = ""

\* An exchange has answered 401 with a detail: the call has failed with it,
\* prefixed.
C15_Witness ==
    \E c \in Callers :
        /\ pc[c] = "done"
        /\ done[c].result.from = "exchange"
        /\ done[c].res.status = 401
        /\ done[c].res.body.json
        /\ done[c].result.detail = <<"Agent auth failed: ", "bad key">>
        /\ "Content-Type" \in exchHeaders[c]

\* ------------------------------------------------------------------ C16
\* The fetch a call settled on failed: it rejected, or answered with a non-2xx
\* status, or with a 2xx body that had to be parsed and was not JSON.
FetchFailed(c) ==
    \/ done[c].res.transport
    \/ ~IsOk(done[c].res.status)
    \/ ~done[c].res.body.json /\ (done[c].result.from = "exchange" \/ done[c].res.status # 204)

\* C16: every call whose exchange or primary fetch fails (non-2xx status,
\* transport failure, unparsable success body) ends in an error handed to the
\* caller, and a call ends in a success value only on a response to its
\* primary request with a status from 200 to 299.
C16_NoFailureBecomesSuccess ==
    \A c \in Callers :
        pc[c] = "done" =>
            /\ done[c].result.kind \in {"ok", "api", "transport", "parse"}
            /\ FetchFailed(c) => done[c].result.kind \in {"api", "transport", "parse"}
            /\ done[c].result.kind = "ok" =>
                /\ primOfCall[c] = 1
                /\ done[c].result.from = "primary"
                /\ ~done[c].res.transport
                /\ done[c].res.status >= 200 /\ done[c].res.status < 300

\* A 2xx exchange response whose body is not JSON has ended the call in an
\* error, before any primary request.
C16_Witness ==
    \E c \in Callers :
        /\ pc[c] = "done"
        /\ done[c].result.from = "exchange"
        /\ done[c].res = ExchangeOk
        /\ done[c].result.kind = "parse"
        /\ primOfCall[c] = 0

\* ------------------------------------------------------------------ C17
\* The vault id a URL names: the segment after "/v1/vaults/", if any.
UrlVault(url) ==
    IF Len(url) >= 3 /\ url[2] = "/v1/vaults/" THEN url[3] ELSE ""

\* The calls whose client method builds its URL with this.vaultUrl().
VaultScoped(what) ==
    what \in {"resource", "list_secrets", "get_secret", "put_secret", "delete_secret",
              "describe_secret", "rotate_and_store", "get_env_bundle"}

\* A call whose client exists and whose request has not settled.
InFlight(k) == calls[k].pc \in {"resolved", "sent"}

\* C17 (as stated): on the hosted server every upstream request of a call
\* carries the token of the call's session and any vault id its URL names is
\* that session's.
C17_Original ==
    \A k \in Slots :
        transport = "httpStream" /\ calls[k].pc = "sent" =>
            /\ calls[k].req.token = sessions[k].token
            /\ UrlVault(calls[k].req.url) \in {"", sessions[k].vaultId}

\* C17: on the hosted server, however the calls of the sessions interleave, a
\* call runs with the session of its connection on a client that holds
\* exactly that session's token and vault id and that no other call in flight
\* runs on; its upstream request carries the session's token, and the vault
\* id of its URL is the session's for the requests scoped to the client's
\* vault, the vault_id argument for grant_access, and absent for
\* create_vault, list_vaults and share_secret.
C17_SessionIsolation ==
    \A k \in Slots :
        transport = "httpStream" /\ InFlight(k) =>
            /\ calls[k].session = sessions[k]
            /\ calls[k].session.present
            /\ calls[k].client \in DOMAIN clients
            /\ clients[calls[k].client] = Client(sessions[k].token, sessions[k].vaultId)
            /\ \A j \in Slots \ {k} :
                InFlight(j) => calls[j].client # calls[k].client
            /\ calls[k].pc = "sent" =>
                /\ calls[k].req.sent
                /\ calls[k].req.token = sessions[k].token
                /\ UrlVault(calls[k].req.url) =
                        IF VaultScoped(calls[k].what) THEN sessions[k].vaultId
                        ELSE IF calls[k].what = "grant_access"
                        THEN calls[k].args.vault_id
                        ELSE ""

\* Two sessions with different tokens and different vault ids have a call in
\* flight each, both constructed before either request was issued: one reads
\* a secret of its vault, the other grants access to a vault that is not its
\* session's.
C17_Witness ==
    /\ transport = "httpStream"
    /\ \E j, k \in Slots :
        /\ sessions[j].present /\ sessions[k].present
        /\ sessions[j].token # sessions[k].token
        /\ sessions[j].vaultId # sessions[k].vaultId
        /\ calls[j].pc = "sent" /\ calls[k].pc = "sent"
        /\ calls[j].what = "get_secret"
        /\ calls[j].req.token = sessions[j].token
        /\ UrlVault(calls[j].req.url) = sessions[j].vaultId
        /\ calls[k].what = "grant_access"
        /\ calls[k].req.token = sessions[k].token
        /\ UrlVault(calls[k].req.url) = "vx"

\* ------------------------------------------------------------------ C18
\* C18: a call that comes with no session while sharedClient is undefined ends
\* at once in the UserError "Not authenticated. ..." (not an API error) with
\* no upstream request and no client; a call that comes with a session runs
\* on a client made from the session's credentials, also when sharedClient is
\* defined, and the request it sends carries the session's token and, where
\* the URL is built from the client's vault id, the session's vault id.
C18_ResolveClient ==
    \A k \in Slots :
        calls[k].pc # "idle" =>
            /\ (~calls[k].session.present /\ sharedClient = 0) =>
                /\ calls[k].pc = "done"
                /\ calls[k].error = UserError(NotAuthenticated)
                /\ calls[k].error.kind # "api"
                /\ calls[k].req = NoReq
                /\ calls[k].client = 0
            /\ calls[k].session.present =>
                /\ calls[k].error = NoError
                /\ calls[k].client # sharedClient
                /\ clients[calls[k].client] =
                       Client(calls[k].session.token, calls[k].session.vaultId)
                /\ calls[k].req.sent =>
                    /\ calls[k].req.token = calls[k].session.token
                    /\ VaultScoped(calls[k].what) =>
                        UrlVault(calls[k].req.url) = calls[k].session.vaultId

\* With sharedClient defined, a call that came with a session has sent its
\* request with the session's token, not the shared client's.
C18_Witness ==
    /\ sharedClient # 0
    /\ \E k \in Slots :
        /\ calls[k].pc = "sent"
        /\ calls[k].session.present
        /\ calls[k].req.token = calls[k].session.token
        /\ calls[k].req.token # clients[sharedClient].token

\* ------------------------------------------------------------------ C19
\* C19: a process that serves over stdio (MCP_TRANSPORT is not "httpStream")
\* and was started without the token or without the vault id never gets past
\* the configuration block: it is still loading or it has exited with code 1,
\* no server has been created, no tool registered, no client constructed and
\* no call started.
C19_FailFast ==
    transport # "httpStream" /\ (env.token = "" \/ env.vaultId = "") =>
        /\ phase \in {"load", "exit(1)"}
        /\ registered = <<>>
        /\ clients = <<>>
        /\ sharedClient = 0
        /\ toolCalls = 0
        /\ \A k \in Slots : calls[k] = NoCall

\* ------------------------------------------------------------------ C20
\* C20: in a process that serves over stdio (MCP_TRANSPORT is not
\* "httpStream") no client exists before the configuration block has run and
\* exactly one ever after, made from the environment's token and vault id;
\* every tool call and resource load runs on it, and the request it sends
\* carries that client's token.
C20_OneExecutor ==
    transport # "httpStream" =>
        /\ phase \in {"load", "exit(1)"} => clients = <<>> /\ sharedClient = 0
        /\ phase \notin {"load", "exit(1)"} =>
            /\ Len(clients) = 1
            /\ sharedClient = 1
            /\ clients[1] = Client(env.token, env.vaultId)
        /\ \A k \in Slots :
            calls[k].pc # "idle" =>
                /\ calls[k].client = sharedClient
                /\ calls[k].error = NoError
                /\ calls[k].req.sent =>
                    /\ calls[k].req.token = clients[sharedClient].token
                    /\ VaultScoped(calls[k].what) =>
                        UrlVault(calls[k].req.url) = clients[sharedClient].vaultId

\* ------------------------------------------------------------------ C23
\* C23 (as stated): no detail handed to the caller of a failed call embeds
\* the numeric status of the response.
C23_Original ==
    \A c \in Callers :
        pc[c] = "done" /\ done[c].result.kind = "api" =>
            ToString(done[c].res.status) \notin Range(done[c].result.detail)

\* The parts of the detail of caller c's error that the core wrote itself:
\* the detail without the part copied from the envelope of the response.
OwnParts(c) ==
    LET body == done[c].res.body
    IN IF body.json /\ body.detail # ""
       THEN SelectSeq(done[c].result.detail, LAMBDA part : part # body.detail)
       ELSE done[c].result.detail

\* C23: the core writes the numeric status of the response into the detail of
\* an API error exactly in the fallback case, when the response carried no
\* detail of its own (its body is not JSON or has no detail) and is not a 402
\* answer to the primary request; a failed exchange has no 402 branch.  A
\* detail the response carried is passed on as it is, the core adding no
\* status to it, except for a primary 402, whose fixed message replaces it.
C23_StatusOnlyInFallback ==
    \A c \in Callers :
        pc[c] = "done" /\ done[c].result.kind = "api" =>
            LET body == done[c].res.body
                carried == body.json /\ body.detail # ""
                quota == done[c].result.from = "primary" /\ done[c].res.status = 402
            IN /\ ToString(done[c].res.status) \in Range(OwnParts(c))
                    <=> ~carried /\ ~quota
               /\ carried /\ ~quota => body.detail \in Range(done[c].result.detail)
               /\ quota => done[c].result.detail = QuotaMessage

\* One caller's exchange was answered 402 without a detail and failed with
\* "Agent auth failed: HTTP 402"; another's primary request was answered 404
\* with the detail "404", which it was handed unchanged.
C23_Witness ==
    \E c, d \in Callers :
        /\ pc[c] = "done"
        /\ done[c].result.kind = "api"
        /\ done[c].result.from = "exchange"
        /\ done[c].res.status = 402
        /\ ~done[c].res.body.json
        /\ done[c].result.detail = <<"Agent auth failed: ", "HTTP ", "402">>
        /\ SettledOnError(d)
        /\ done[d].result.from = "primary"
        /\ done[d].res.status = 404
        /\ done[d].res.body.detail = "404"
        /\ done[d].result.detail = <<"404">>

\* ------------------------------------------------------------------ C30
\* The cache test the next call applies.
CacheEmptyOrInBuffer ==
    token = "" \/ now >= tokenExpiresAt - 60 * 1000

\* C30: with calls that do not overlap, no step of a call other than the
\* store of a parsed 2xx exchange response changes the cached token or expiry:
\* an exchange that fails (non-2xx, rejected fetch, unparsable body) settles
\* the call with the cache as it was; and a call of a client with an
\* exchangeable identity issues an exchange exactly when the cache it finds is
\* empty or within the 60 s buffer.
C30_FailedExchangeKeepsCache ==
    [][\A c \in Callers :
        /\ (pc'[c] # pc[c] /\ ~StoreStep(c)) =>
            <<token, tokenExpiresAt, tokenSrc, expirySrc>>' =
                <<token, tokenExpiresAt, tokenSrc, expirySrc>>
        /\ (SettleStep(c) /\ done'[c].result.from = "exchange") =>
            /\ <<token, tokenExpiresAt>>' = <<token, tokenExpiresAt>>
            /\ done'[c].result.kind \in {"api", "transport", "parse"}
        /\ (CallStep(c) /\ kind = "agent") =>
            (pc'[c] = "exch" <=> CacheEmptyOrInBuffer)
      ]_vars

\* After a successful exchange cached a token, a later call's exchange has
\* failed and the cache still holds the pair of the earlier response.
C30_Witness ==
    \E c \in Callers :
        /\ pc[c] = "done"
        /\ done[c].result.from = "exchange"
        /\ callsStarted >= 2
        /\ token # ""
        /\ tokenSrc # 0
        /\ <<token, tokenExpiresAt>> = LastResponsePair

\* ------------------------------------------------------------------ C21
\* The part of a secret URL after ".../secrets/".
UrlPath(url) == SubSeq(url, 5, Len(url))

\* Every "%" of str starts an escape: two hexadecimal digits follow it.
HexDigits == {"0", "1", "2", "3", "4", "5", "6", "7", "8", "9",
              "A", "B", "C", "D", "E", "F"}
EscapesOnly(str) ==
    \A i \in DOMAIN str :
        str[i] = "%" =>
            /\ i + 2 <= Len(str)
            /\ str[i + 1] \in HexDigits
            /\ str[i + 2] \in HexDigits

\* C21: the URL path a path method builds has as many "/"-separated segments
\* as the secret path, each being the percent-encoding of the corresponding
\* segment of the secret path with no raw space, "#", "?" or character
\* outside ASCII and no "%" that is not an escape; "a b/c#d" gives
\* "a%20b/c%23d"; and the URL is the same whichever of getSecret, putSecret
\* and deleteSecret builds it.
C21_EncodePathKeepsSegments ==
    \A c \in Callers :
        inv[c].pc = "sent" /\ inv[c].tool \in PathMethods =>
            LET out == UrlPath(reqs[c][1].url)
                inSegs == Split(inv[c].args.path)
                outSegs == Split(out)
            IN /\ Len(reqs[c]) = 1
               /\ SubSeq(reqs[c][1].url, 1, 4) =
                      <<BaseUrl, "/v1/vaults/", ToolVaultId, "/secrets/">>
               /\ Len(outSegs) = Len(inSegs)
               /\ \A i \in DOMAIN inSegs :
                   /\ outSegs[i] = EncodeURIComponent(inSegs[i])
                   /\ \A j \in DOMAIN outSegs[i] :
                       outSegs[i][j] \notin {" ", "#", "?", "/", EAcute}
                   /\ EscapesOnly(outSegs[i])
               /\ inv[c].args.path = ExamplePath =>
                   out = <<"a", "%", "2", "0", "b", "/", "c", "%", "2", "3", "d">>
               /\ \A m \in PathMethods :
                   MethodRequest(m, inv[c].args.path, NoBody).url = reqs[c][1].url

\* putSecret has built the URL of a two-segment path whose segments hold a
\* space and a "#".
C21_Witness ==
    \E c \in Callers :
        /\ inv[c].pc = "sent"
        /\ inv[c].tool = "putSecret"
        /\ inv[c].args.path = ExamplePath
        /\ Len(reqs[c]) = 1
        /\ UrlPath(reqs[c][1].url) =
                <<"a", "%", "2", "0", "b", "/", "c", "%", "2", "3", "d">>

\* ------------------------------------------------------------------ C22
\* C22: a get of p that started after a put of (p, v, t) on the same client
\* had returned, with no other write to p served between that put and the
\* get, returns, when the upstream serves it and request() succeeds, the
\* value v, the type t and a version greater than the one p had before the
\* put.
C22_GetAfterPut ==
    \A c \in Callers :
        (inv[c].pc = "done" /\ inv[c].tool = "get_secret" /\ inv[c].expect # <<>>) =>
            /\ done[c].result.kind = "ok" => ret[c].kind = "return"
            /\ ret[c].kind = "return" =>
                /\ ret[c].payload.value = inv[c].expect[1].value
                /\ ret[c].payload.type = inv[c].expect[1].type
                /\ ret[c].payload.version > inv[c].expect[1].before
                /\ ret[c].payload.path = inv[c].args.path

\* A get of "a b" has returned the bundle value that the put before it stored
\* under that path.
C22_Witness ==
    \E c \in Callers :
        /\ inv[c].pc = "done"
        /\ inv[c].tool = "get_secret"
        /\ inv[c].args.path = <<"a", " ", "b">>
        /\ inv[c].expect # <<>>
        /\ ret[c].kind = "return"
        /\ ret[c].payload.value = BundleValue
        /\ ret[c].payload.type = "env_bundle"
        /\ ret[c].payload.version = 1

\* ------------------------------------------------------------------ C24
\* The messages a finished invocation of a secret tool has logged, given
\* only its tool, its path and whether its request succeeded.
LogPrefix(tool) ==
    CASE tool = "get_secret" -> "secret accessed: "
      [] tool = "put_secret" -> "secret stored: "
      [] tool = "delete_secret" -> "secret deleted: "
      [] tool = "rotate_and_store" -> "secret rotated: "
      [] tool = "get_env_bundle" -> "env_bundle accessed: "
ValueFreeLogs(tool, path, succeeded) ==
    IF succeeded THEN << <<LogPrefix(tool)>> \o path >> ELSE <<>>
ValueChars == {"x", "y", "K", "="}

\* C24: what get_secret, put_secret, delete_secret, rotate_and_store and
\* get_env_bundle log is fixed by the tool, the path and whether the call of
\* the client succeeded, so two runs that differ only in the secret value log
\* the same messages; no message holds a character of a value; get_secret
\* logs only "secret accessed: <path>".
C24_ValuesNeverLogged ==
    \A c \in Callers :
        (inv[c].pc = "done" /\ inv[c].tool \in {"get_secret", "put_secret", "delete_secret",
                                                "rotate_and_store", "get_env_bundle"}) =>
            /\ logs[c] = ValueFreeLogs(inv[c].tool, inv[c].args.path,
                                       done[c].result.kind = "ok")
            /\ \A i \in DOMAIN logs[c] : Range(logs[c][i]) \cap ValueChars = {}
            /\ inv[c].tool = "get_secret" =>
                \A i \in DOMAIN logs[c] :
                    logs[c][i] = <<"secret accessed: ">> \o inv[c].args.path

\* get_secret has returned a value and logged the access.
C24_Witness ==
    \E c \in Callers :
        /\ inv[c].pc = "done"
        /\ inv[c].tool = "get_secret"
        /\ ret[c].kind = "return"
        /\ ret[c].payload.value = BundleValue
        /\ logs[c] = << <<"secret accessed: ", "k">> >>

\* ------------------------------------------------------------------ C25
RemappingTools == {"get_secret", "describe_secret", "get_env_bundle", "delete_secret"}

\* C25: in get_secret, describe_secret, get_env_bundle and delete_secret a
\* request that failed with status 404 is thrown as the user error "No secret
\* found at path '<path>'.", one that failed with 410 as the user error about
\* expiry or the access count, and every other error of the request is
\* thrown unchanged.
C25_MissingAndExpired ==
    \A c \in Callers :
        (inv[c].pc = "done" /\ inv[c].tool \in RemappingTools
            /\ done[c].result.kind \notin {"ok", "none"}
            /\ done[c].result.from = "primary") =>
            /\ ret[c].kind = "throw"
            /\ ret[c].payload =
                    IF done[c].result.kind = "api" /\ done[c].result.status = 404
                    THEN NotFound(inv[c].args.path)
                    ELSE IF done[c].result.kind = "api" /\ done[c].result.status = 410
                    THEN Expired(inv[c].args.path)
                    ELSE done[c].result

\* ------------------------------------------------------------------ C26
\* C26: describe_secret never requests GET .../secrets/{path}, the endpoint
\* that returns the value, and what it returns holds no value.
C26_DescribeNeverFetchesValue ==
    \A c \in Callers :
        inv[c].tool = "describe_secret" =>
            /\ \A i \in DOMAIN reqs[c] :
                reqs[c][i] # GetSecretRequest(ToolVaultId, inv[c].args.path)
            /\ (inv[c].pc = "done" /\ ret[c].kind = "return") =>
                /\ "value" \notin DOMAIN ret[c].payload
                /\ {"path", "type", "version"} \subseteq DOMAIN ret[c].payload

\* ------------------------------------------------------------------ C29
\* The requests of caller c's invocation other than the token exchange.
ToolRequests(c) ==
    LET NotExchange(r) == r # ExchangeRequest(cfg)
    IN SelectSeq(reqs[c], NotExchange)

\* C29: the client's agent id is undefined exactly when it was built from a
\* static token; then simulate_transaction and submit_transaction throw the
\* user error "<tool> requires agent authentication ..." without any
\* upstream request; with an agent identity the only request they issue,
\* next to the token exchange of the client, is one POST to
\* /v1/agents/<that agent id>/transactions/simulate, respectively
\* /v1/agents/<that agent id>/transactions, issued once the client has its
\* headers.
C29_TransactionsNeedAgent ==
    /\ AgentId(cfg) = "" <=> cfg.kind = "static"
    /\ \A c \in Callers :
        (inv[c].tool \in TransactionTools /\ inv[c].pc # "idle") =>
            IF cfg.kind = "static"
            THEN /\ inv[c].pc = "done"
                 /\ reqs[c] = <<>>
                 /\ ret[c] = Thrown(UserError(<<inv[c].tool,
                            " requires agent authentication (ONECLAW_AGENT_ID).">>))
            ELSE /\ Len(ToolRequests(c)) = primOfCall[c]
                 /\ primOfCall[c] <= 1
                 /\ \A i \in DOMAIN ToolRequests(c) :
                    /\ ToolRequests(c)[i].method = "POST"
                    /\ ToolRequests(c)[i].url =
                        IF inv[c].tool = "simulate_transaction"
                        THEN <<BaseUrl, "/v1/agents/", cfg.agentId, "/transactions/simulate">>
                        ELSE <<BaseUrl, "/v1/agents/", cfg.agentId, "/transactions">>

\* submit_transaction was refused on a static-token client: the invocation
\* ended with a throw and sent no request.
C29_Witness ==
    /\ cfg.kind = "static"
    /\ \E c \in Callers :
        /\ inv[c].tool = "submit_transaction"
        /\ inv[c].pc = "done"
        /\ reqs[c] = <<>>
        /\ ret[c].kind = "throw"

\* ------------------------------------------------------------------ C27
\* The token each Authorization header of the model carries once a leading
\* "Bearer" and the blanks around the rest are gone.
BearerToken(authorization) ==
    CASE authorization = <<>> -> ""
      [] authorization = <<" ">> -> ""
      [] authorization = <<"Bearer">> -> "Bearer"
      [] authorization = <<"Bearer", " ">> -> ""
      [] authorization = <<"Bearer", " ", "A1">> -> "A1"
      [] authorization = <<"bearer", " ", " ", "A2", " ">> -> "A2"

\* Slot k's connection request was rejected with the given message: it has no
\* session, no call and no client.
Rejected(k, message) ==
    /\ conn[k].error = AuthError(message)
    /\ sessions[k] = NoSession
    /\ calls[k] = NoCall
    /\ conn[k].calls = 0
    /\ conn[k].clients = 0

\* C27: a connection request to the hosted server is accepted only if its
\* Authorization header leaves a non-empty token once the Bearer prefix is
\* stripped and its X-Vault-ID header is non-empty; otherwise it is rejected,
\* for the missing token before the missing vault id, and gets no session, no
\* call and no client; an accepted one has a session of exactly that token
\* and vault id.
C27_Authenticate ==
    \A k \in Slots :
        /\ sessions[k].present => conn[k].tried /\ transport = "httpStream"
        /\ conn[k].tried =>
            IF BearerToken(conn[k].authorization) = ""
            THEN Rejected(k, MissingAuthorization)
            ELSE IF conn[k].xVaultId = ""
            THEN Rejected(k, MissingVaultId)
            ELSE /\ conn[k].error = NoError
                 /\ sessions[k] = SessionAuth(BearerToken(conn[k].authorization),
                                              conn[k].xVaultId)

\* One connection was accepted with the token of a lower-case, padded Bearer
\* header; another, lacking both headers, was rejected for the token.
C27_Witness ==
    \E k, j \in Slots :
        /\ conn[k].authorization = <<"bearer", " ", " ", "A2", " ">>
        /\ sessions[k] = SessionAuth("A2", "vb")
        /\ conn[j].authorization = <<"Bearer", " ">>
        /\ conn[j].xVaultId = ""
        /\ conn[j].error = AuthError(MissingAuthorization)
        /\ sessions[j] = NoSession

\* ------------------------------------------------------------------ C28
\* C28 as stated: in hosted mode at most one client is constructed for a
\* session, however many calls it makes.
C28_Original ==
    transport = "httpStream" =>
        \A k \in Slots : sessions[k].present => conn[k].clients <= 1

\* C28: in hosted mode every call that comes with a session is served by a
\* client constructed for that call from the session's token and vault id,
\* so the number of clients constructed for a session is the number of calls
\* it has made.
C28_OneClientPerCall ==
    transport = "httpStream" =>
        \A k \in Slots :
            /\ conn[k].clients = conn[k].calls
            /\ calls[k].pc # "idle" =>
                /\ calls[k].client \in DOMAIN clients
                /\ clients[calls[k].client] =
                        Client(sessions[k].token, sessions[k].vaultId)
                /\ \A j \in Slots \ {k} :
                        calls[j].pc # "idle" => calls[j].client # calls[k].client

\* A session has made two calls and two clients were constructed for it.
C28_Witness ==
    /\ transport = "httpStream"
    /\ \E k \in Slots :
        /\ sessions[k].present
        /\ conn[k].calls = 2
        /\ conn[k].clients = 2

====
